---- MODULE Spec2Model ----
(***************************************************************************)
(* Model of simple-sql's guarded SQL layer (src/sql/sql.go):               *)
(* Transaction / doAndRecover, the Exec and Query wrappers with their      *)
(* error classification (isAssumedSQLError), run by two goroutines against *)
(* one table with a unique key, as the tests in src/ssql/sql_test.go do.   *)
(*                                                                         *)
(* The driver and the database are the environment.  Their behaviour is    *)
(* modelled as the tests document it: a unique index whose insert waits    *)
(* for an uncommitted insert of the same key, row locks taken by           *)
(* FOR UPDATE NOWAIT, deadlock detection, and a transaction that is in the  *)
(* failed state after a statement error.  Besides, any driver call may     *)
(* fail with an arbitrary error.                                           *)
(***************************************************************************)
EXTENDS Naturals, Sequences, FiniteSets, TLC

\* ------------------------------------------------------------------ bounds

\* Statements one unit of work (callback f) issues at most.
MaxStmts == 2

\* ------------------------------------------------------------- constants

\* The goroutines of the tests, each calling Transaction once.
Procs == {"g1", "g2"}

\* The unique-key values (column uid) the tests insert and lock.
Keys == {"aa", "bb"}

PostgresErrCodeLockNotAvailable == "55P03"
PostgresErrCodeUniqConstraint == "23505"
PostgresErrCodeDeadLock == "40P01"

ErrLockNotAvailable == "ErrLockNotAvailable"
ErrUniqConstraint == "ErrUniqConstraint"
ErrDeadLock == "ErrDeadLock"

PanicCommitDespiteErrInTx == "PanicCommitDespiteErrInTx"

\* pgx's error for a Commit that the server turned into a rollback.
ErrTxCommitRollback == "ErrTxCommitRollback"

\* An error value of the application itself, neither nil nor one of the three.
ErrApp == "ErrApp"

\* The nil error.
Nil == "nil"

\* The codes whose presence in an error text the classifier looks for.  An
\* error text is modelled by the set of these codes that occur in it.
Codes ==
  {PostgresErrCodeLockNotAvailable, PostgresErrCodeUniqConstraint,
   PostgresErrCodeDeadLock}

ErrTexts == SUBSET Codes

\* Every error value a callback can hand back.
Errs == {ErrLockNotAvailable, ErrUniqConstraint, ErrDeadLock, ErrApp}

\* The value a panicking callback panics with, and the fatal aborts of the
\* layer itself: a failed statement ("query failed: ..."), a failed Begin,
\* Rollback or Commit (panic(err)).
PanicUser == "r"
PanicQueryFailed == "query failed"
PanicBeginErr == "begin err"
PanicRollbackErr == "rollback err"
PanicCommitErr == "commit err"

VARIABLES
  pc,        \* where each goroutine is inside Transaction
  tx,        \* the state of each goroutine's transaction handle
  table,     \* committed rows of the table, by unique key
  ins,       \* rows each open transaction has inserted and not committed
  locks,     \* row locks each open transaction holds
  log,       \* the statements each callback issued, with what they returned
  fCalls,    \* how often Transaction invoked the callback
  fRet,      \* how the callback ended: returned a value, or panicked
  outcome,   \* how Transaction ended for its caller
  nRollback, \* calls of tx.Rollback
  nCommit,   \* calls of tx.Commit
  endRes,    \* what the driver answered to the Commit or Rollback
  cfg,       \* the package's settings: Mode and the validator switches
  call       \* the last call of Query, QueryFirst or Exec made outside f

vars ==
  <<pc, tx, table, ins, locks, log, fCalls, fRet, outcome, nRollback,
    nCommit, endRes, cfg, call>>

\* What Transaction and the statements of a callback change.
txVars ==
  <<pc, tx, ins, locks, log, fCalls, fRet, outcome, nRollback, nCommit,
    endRes>>

None == [kind |-> "none", val |-> Nil]
Returned(e) == [kind |-> "return", val |-> e]
Panicked(r) == [kind |-> "panic", val |-> r]

\* Transactions that have begun and neither committed nor rolled back.
Open(p) == tx[p] \in {"Active", "Failed"}

\* The goroutines other than p.
Others(p) == Procs \ {p}

\* Goroutines whose Transaction call is over.
Exited == {q \in Procs : pc[q] = "done"}

\* ------------------------------------------------------ error classifier

\* Mutant of isAssumedSQLError: the unique-violation code is not looked for.
isAssumedSQLError_NoUniq(text) ==
  IF PostgresErrCodeLockNotAvailable \in text THEN ErrLockNotAvailable
  ELSE IF PostgresErrCodeDeadLock \in text THEN ErrDeadLock
  ELSE Nil

\* Mutant of isAssumedSQLError: the deadlock code is not looked for.
isAssumedSQLError_NoDeadLock(text) ==
  IF PostgresErrCodeLockNotAvailable \in text THEN ErrLockNotAvailable
  ELSE IF PostgresErrCodeUniqConstraint \in text THEN ErrUniqConstraint
  ELSE Nil

\* Mutant of isAssumedSQLError: the unique violation is looked for first.
isAssumedSQLError_UniqFirst(text) ==
  IF PostgresErrCodeUniqConstraint \in text THEN ErrUniqConstraint
  ELSE IF PostgresErrCodeLockNotAvailable \in text THEN ErrLockNotAvailable
  ELSE IF PostgresErrCodeDeadLock \in text THEN ErrDeadLock
  ELSE Nil

\* isAssumedSQLError: the first of the three codes found in the text decides;
\* no code gives nil.
isAssumedSQLError(text) ==
  IF PostgresErrCodeLockNotAvailable \in text THEN ErrLockNotAvailable
  ELSE IF PostgresErrCodeUniqConstraint \in text THEN ErrUniqConstraint
  ELSE IF PostgresErrCodeDeadLock \in text THEN ErrDeadLock
  ELSE Nil

\* What the driver answers to a statement: success, or an error with a text.
DrvOk == [ok |-> TRUE, text |-> {}]
DrvErr(text) == [ok |-> FALSE, text |-> text]

\* --------------------------------------------------------------- the log

\* One statement of a callback: what it was, what the database found when
\* it was issued (env), why the driver answered as it did (cause), and what
\* the wrapper gave back to the callback (res, "panic" for a fatal abort,
\* "pending" while the statement waits in the database).
Entry(op, k, env, cause, drv, rows) ==
  [op |-> op, key |-> k, env |-> env, cause |-> cause, drv |-> drv,
   res |-> "pending", rows |-> rows]

\* The database as a statement of p on key k finds it.
EnvAt(p, k) ==
  [blocker |-> {q \in Others(p) : k \in ins[q]},
   holder |-> {q \in Others(p) : k \in locks[q]},
   exited |-> Exited,
   committed |-> k \in table]

Last(p) == log[p][Len(log[p])]
HasLast(p) == Len(log[p]) > 0

\* ------------------------------------------------------------- the driver

\* tx.Rollback as the database performs it: the uncommitted rows and the row
\* locks of p are dropped.  A failed Rollback leaves a broken connection,
\* which the server ends the same way.
DoRollback(p, ok) ==
  /\ tx' = [tx EXCEPT ![p] = IF ok THEN "RolledBack" ELSE "Broken"]
  /\ ins' = [ins EXCEPT ![p] = {}]
  /\ locks' = [locks EXCEPT ![p] = {}]
  /\ table' = table

\* tx.Commit as the database performs it: the rows of p become visible and
\* its locks are released.
DoCommit(p) ==
  /\ tx' = [tx EXCEPT ![p] = "Committed"]
  /\ table' = table \cup ins[p]
  /\ ins' = [ins EXCEPT ![p] = {}]
  /\ locks' = [locks EXCEPT ![p] = {}]

\* ----------------------------------------------- doAndRecover / Transaction

\* Mutant of Recover: the panic is passed on without a rollback.
Recover_NoRollback(p, r) ==
  /\ fRet' = [fRet EXCEPT ![p] = Panicked(r)]
  /\ pc' = [pc EXCEPT ![p] = "done"]
  /\ outcome' = [outcome EXCEPT ![p] = Panicked(r)]
  /\ UNCHANGED <<tx, table, ins, locks, nRollback, nCommit, endRes>>

\* Mutant of Recover: the transaction is committed before the panic is
\* passed on.
Recover_Commits(p, r) ==
  /\ nCommit' = [nCommit EXCEPT ![p] = @ + 1]
  /\ nRollback' = nRollback
  /\ fRet' = [fRet EXCEPT ![p] = Panicked(r)]
  /\ pc' = [pc EXCEPT ![p] = "done"]
  /\ DoCommit(p)
  /\ endRes' = [endRes EXCEPT ![p] = "ok"]
  /\ outcome' = [outcome EXCEPT ![p] = Panicked(r)]

\* doAndRecover's deferred function, run when the callback panicked with r:
\* tx.Rollback, then panic(r); panic(err) when the rollback fails.
Recover(p, r) ==
  /\ nRollback' = [nRollback EXCEPT ![p] = @ + 1]
  /\ nCommit' = nCommit
  /\ fRet' = [fRet EXCEPT ![p] = Panicked(r)]
  /\ pc' = [pc EXCEPT ![p] = "done"]
  /\ \E ok \in BOOLEAN :
       /\ DoRollback(p, ok)
       /\ endRes' = [endRes EXCEPT ![p] = IF ok THEN "ok" ELSE "err"]
       /\ outcome' = [outcome EXCEPT ![p] =
                        IF ok THEN Panicked(r) ELSE Panicked(PanicRollbackErr)]

\* Mutant of TxRollback: the error is returned without a rollback.
TxRollback_Skipped(p, e) ==
  /\ outcome' = [outcome EXCEPT ![p] = Returned(e)]
  /\ UNCHANGED <<tx, table, ins, locks, nRollback, nCommit, endRes>>

\* Mutant of TxRollback: the rollback is called a second time.
TxRollback_Twice(p, e) ==
  /\ nRollback' = [nRollback EXCEPT ![p] = @ + 2]
  /\ nCommit' = nCommit
  /\ DoRollback(p, TRUE)
  /\ endRes' = [endRes EXCEPT ![p] = "ok"]
  /\ outcome' = [outcome EXCEPT ![p] = Returned(e)]

\* Transaction after doAndRecover returned the non-nil error e: tx.Rollback,
\* then return e; panic(err) when the rollback fails.
TxRollback(p, e) ==
  /\ nRollback' = [nRollback EXCEPT ![p] = @ + 1]
  /\ nCommit' = nCommit
  /\ \E ok \in BOOLEAN :
       /\ DoRollback(p, ok)
       /\ endRes' = [endRes EXCEPT ![p] = IF ok THEN "ok" ELSE "err"]
       /\ outcome' = [outcome EXCEPT ![p] =
                        IF ok THEN Returned(e) ELSE Panicked(PanicRollbackErr)]

\* Mutant of TxCommit: a failed Commit is returned as an error value.
TxCommit_ReturnsErr(p) ==
  /\ nCommit' = [nCommit EXCEPT ![p] = @ + 1]
  /\ nRollback' = nRollback
  /\ \/ /\ tx[p] = "Active"
        /\ DoCommit(p)
        /\ endRes' = [endRes EXCEPT ![p] = "ok"]
        /\ outcome' = [outcome EXCEPT ![p] = Returned(Nil)]
     \/ /\ tx[p] = "Failed"
        /\ DoRollback(p, TRUE)
        /\ endRes' = [endRes EXCEPT ![p] = ErrTxCommitRollback]
        /\ outcome' = [outcome EXCEPT ![p] = Returned(ErrTxCommitRollback)]
     \/ /\ endRes' = [endRes EXCEPT ![p] = "err"]
        /\ outcome' = [outcome EXCEPT ![p] = Returned(PanicCommitErr)]
        /\ DoRollback(p, FALSE)

\* Transaction after doAndRecover returned nil: tx.Commit.  A transaction
\* in the failed state is rolled back by the server and the driver answers
\* ErrTxCommitRollback: panic(PanicCommitDespiteErrInTx).  Any other failure:
\* panic(err), and whether the server committed is not known.
TxCommit(p) ==
  /\ nCommit' = [nCommit EXCEPT ![p] = @ + 1]
  /\ nRollback' = nRollback
  /\ \/ /\ tx[p] = "Active"
        /\ DoCommit(p)
        /\ endRes' = [endRes EXCEPT ![p] = "ok"]
        /\ outcome' = [outcome EXCEPT ![p] = Returned(Nil)]
     \/ /\ tx[p] = "Failed"
        /\ DoRollback(p, TRUE)
        /\ endRes' = [endRes EXCEPT ![p] = ErrTxCommitRollback]
        /\ outcome' = [outcome EXCEPT ![p] =
                         Panicked(PanicCommitDespiteErrInTx)]
     \/ /\ endRes' = [endRes EXCEPT ![p] = "err"]
        /\ outcome' = [outcome EXCEPT ![p] = Panicked(PanicCommitErr)]
        /\ \/ tx[p] = "Active" /\ DoCommit(p)
           \/ DoRollback(p, FALSE)

\* Mutant of Transaction: the rollback branch is taken for nil as well.
Transaction_AlwaysRollback(p, e) ==
  /\ pc' = [pc EXCEPT ![p] = "done"]
  /\ fRet' = [fRet EXCEPT ![p] = Returned(e)]
  /\ TxRollback(p, e)

\* Transaction once the callback returned e.
Transaction(p, e) ==
  /\ pc' = [pc EXCEPT ![p] = "done"]
  /\ fRet' = [fRet EXCEPT ![p] = Returned(e)]
  /\ IF e # Nil THEN TxRollback(p, e) ELSE TxCommit(p)

\* ------------------------------------------------- the Exec/Query wrappers

\* Exec once tx.Exec answered: a classified error is returned to the
\* callback, any other error is a fatal abort, success returns nil.
Exec(drv) ==
  IF drv.ok THEN Returned(Nil)
  ELSE IF isAssumedSQLError(drv.text) # Nil
    THEN Returned(isAssumedSQLError(drv.text))
  ELSE Panicked(PanicQueryFailed)

\* Mutant of Query: every error of the driver is a fatal abort.
Query_AllFatal(drv) ==
  IF drv.ok THEN Returned(Nil) ELSE Panicked(PanicQueryFailed)

\* Query once tx.Query answered: the same classification as Exec.
Query(drv) ==
  IF drv.ok THEN Returned(Nil)
  ELSE IF isAssumedSQLError(drv.text) # Nil
    THEN Returned(isAssumedSQLError(drv.text))
  ELSE Panicked(PanicQueryFailed)

\* The log of p without a statement that is still waiting.
Settled(p) ==
  IF HasLast(p) /\ Last(p).res = "pending"
    THEN SubSeq(log[p], 1, Len(log[p]) - 1)
    ELSE log[p]

\* A statement of the callback comes back from its wrapper with w: a value
\* goes to the callback, which runs on in the transaction as the statement
\* left it; a fatal abort is a panic inside the callback, which doAndRecover
\* recovers.
StmtReturn(p, e, w, txp, insp, locksp) ==
  /\ log' = [log EXCEPT ![p] =
               Append(Settled(p),
                      [e EXCEPT !.res =
                         IF w.kind = "panic" THEN "panic" ELSE w.val])]
  /\ fCalls' = fCalls
  /\ IF w.kind = "panic"
       THEN Recover(p, w.val)
       ELSE /\ pc' = [pc EXCEPT ![p] = "f"]
            /\ tx' = [tx EXCEPT ![p] = txp]
            /\ ins' = [ins EXCEPT ![p] = insp]
            /\ locks' = [locks EXCEPT ![p] = locksp]
            /\ UNCHANGED <<table, fRet, outcome, nRollback, nCommit, endRes>>

\* ------------------------------------------------------- statement texts

\* A statement text is a sequence of lexical units: a keyword, a name, a
\* punctuation mark, a blank.  strings.Contains is the search for a
\* contiguous run of units, and strings.ToLower rewrites the units that have
\* upper-case letters.
LowerUnit(u) ==
  CASE u = "SELECT" -> "select"
    [] u = "FROM" -> "from"
    [] u = "WHERE" -> "where"
    [] u = "DELETE" -> "delete"
    [] u = "UPDATE" -> "update"
    [] u = "SET" -> "set"
    [] u = "INSERT" -> "insert"
    [] u = "INTO" -> "into"
    [] u = "VALUES" -> "values"
    [] u = "FOR" -> "for"
    [] u = "NOWAIT" -> "nowait"
    [] u = "AND" -> "and"
    [] u = "UPDATED_AT" -> "updated_at"
    [] u = "CHECK" -> "check"
    [] u = "DISABLE" -> "disable"
    [] u = "SEQ" -> "seq"
    [] u = "SCAN" -> "scan"
    [] u = "Seq" -> "seq"
    [] u = "Scan" -> "scan"
    [] u = "Index" -> "index"
    [] u = "Parallel" -> "parallel"
    [] u = "Limit" -> "limit"
    [] u = "Sort" -> "sort"
    [] u = "LockRows" -> "lockrows"
    [] u = "Result" -> "result"
    [] u = "Nested" -> "nested"
    [] u = "Loop" -> "loop"
    [] u = "T" -> "t"
    [] u = "U" -> "u"
    [] OTHER -> u

ToLower(s) == [i \in 1..Len(s) |-> LowerUnit(s[i])]

\* strings.Contains(s, sub)
Contains(s, sub) ==
  \E i \in 1..Len(s) :
    /\ i + Len(sub) <= Len(s) + 1
    /\ SubSeq(s, i, i + Len(sub) - 1) = sub

\* strings.Count(s, u) for a one-character u
Count(s, u) == Cardinality({i \in 1..Len(s) : s[i] = u})

\* Mutant of StrContainWithIgnoreCase: the case of the letters counts.
StrContainWithIgnoreCase_CaseSensitive(target, str) == Contains(target, str)

\* StrContainWithIgnoreCase: both sides are lower-cased, then searched.
StrContainWithIgnoreCase(target, str) ==
  Contains(ToLower(target), ToLower(str))

\* The escape markers of the WHERE check and of the plan audit.
disableWhereCheckClause == <<"where", " ", "check", " ", "disable">>
seqScanCheckDisableClause ==
  <<"seq", " ", "scan", " ", "check", " ", "disable">>

\* The tautology a caller writes to carry a marker: 'm'='m'
Tautology(m) == <<"'">> \o m \o <<"'", "=", "'">> \o m \o <<"'">>

\* The texts the validators look for.
KwSelect == <<"SELECT", " ">>
KwWhere == <<" ", "WHERE", " ">>
KwForSelect == <<" ", "FOR", " ", "SELECT">>
KwForUpdate == <<" ", "FOR", " ", "UPDATE">>
KwNowait == <<" ", "NOWAIT">>
KwDelete == <<"DELETE", " ">>
KwUpdate == <<"UPDATE", " ">>
KwUpdatedAt == <<"updated_at">>

\* The statements the callers pass: a head, a condition, a locking clause.
Heads ==
  {<<"SELECT", " ", "*", " ", "FROM", " ", "t">>,
   <<"select", " ", "*", " ", "from", " ", "t">>,
   <<"delete", " ", "from", " ", "t">>,
   <<"UPDATE", " ", "t", " ", "SET", " ", "name", "=", "$">>,
   <<"UPDATE", " ", "t", " ", "SET", " ", "name", "=", "$", ",", " ",
     "updated_at", "=", "now()">>,
   <<"update", " ", "t", " ", "set", " ", "UPDATED_AT", "=", "$">>,
   <<"INSERT", " ", "INTO", " ", "t", " ", "(", "uid", ")", " ", "VALUES",
     " ", "(", "$", ")">>}

Conditions ==
  {<<>>,
   <<" ", "WHERE", " ", "id", "=", "$">>,
   <<" ", "where", " ", "id", "=", "$">>,
   \* the marker the way sql.go documents it
   <<" ", "WHERE", " ">> \o Tautology(disableWhereCheckClause)
     \o <<" ", "AND", " ", "id", "=", "$">>,
   \* the same on a line of its own: no blank before WHERE
   <<"\n", "WHERE", " ">> \o Tautology(disableWhereCheckClause),
   \* the marker's words in a comment
   <<" ", "/*", "where", " ", "check", " ", "disable", "*/">>}

Lockings ==
  {<<>>,
   <<" ", "FOR", " ", "UPDATE">>,
   <<" ", "FOR", " ", "SELECT">>,
   <<" ", "FOR", " ", "UPDATE", " ", "NOWAIT">>,
   <<" ", "for", " ", "update", " ", "nowait">>}

Texts == {h \o c \o l : h \in Heads, c \in Conditions, l \in Lockings}

\* ---------------------------------------------------------------- settings

MODE_PRODUCTION == "production"
MODE_DEBUG == "debug"

\* Mode is a string variable of the package: it may hold any other text.
Modes == {MODE_PRODUCTION, MODE_DEBUG, "staging"}

\* The settings as the package declares them.
DefaultCfg ==
  [Mode |-> MODE_DEBUG, useSeqScanCheck |-> TRUE, useWhereCheck |-> TRUE,
   forceNowaitOnLockingRead |-> TRUE, forceUpdatedAtCheck |-> TRUE]

Cfgs ==
  [Mode : Modes, useSeqScanCheck : BOOLEAN, useWhereCheck : BOOLEAN,
   forceNowaitOnLockingRead : BOOLEAN, forceUpdatedAtCheck : BOOLEAN]

PanicInvalidMode == "invalid Mode"

\* isDebugMode
isDebugMode ==
  IF cfg.Mode = MODE_PRODUCTION THEN Returned(FALSE)
  ELSE IF cfg.Mode = MODE_DEBUG THEN Returned(TRUE)
  ELSE Panicked(PanicInvalidMode)

\* ------------------------------------------------------------- validators

PanicMpNil == "arg mp must not be null"
PanicPlaceHolderNumberNotMatch ==
  "the number of PlaceHolder must match the number of args"
PanicDeleteSQLMustUseWhere == "delete sql must use where keyword"
PanicSelectSQLMustUseWhere == "select sql must use where keyword"
PanicUpdateSQLMustUseWhere == "update sql must use where keyword"
PanicUpdateSQLMustHaveUpdatedAt == "update sql must have updated_at field"
PanicLockingReadMustUseNowait == "locking read must use nowait"
PanicQueryNotContanSelect == "select does not contain select"
PanicSQLIsSeqScan == "sql executed by Seq Scan: "

\* Every check let the statement through.
Pass == "pass"

\* Mutant of QueryChecks: a locking read is not asked for NOWAIT.
QueryChecks_NowaitUnchecked(mp, query, nargs) ==
  IF mp.nil THEN PanicMpNil
  ELSE IF Count(query, "$") # nargs THEN PanicPlaceHolderNumberNotMatch
  ELSE IF ~StrContainWithIgnoreCase(query, KwSelect)
    THEN PanicQueryNotContanSelect
  ELSE IF /\ cfg.useWhereCheck
          /\ ~StrContainWithIgnoreCase(query, KwWhere)
          /\ ~StrContainWithIgnoreCase(query, disableWhereCheckClause)
    THEN PanicSelectSQLMustUseWhere
  ELSE Pass

\* Mutant of QueryChecks: the text is not asked for SELECT.
QueryChecks_SelectUnchecked(mp, query, nargs) ==
  IF mp.nil THEN PanicMpNil
  ELSE IF Count(query, "$") # nargs THEN PanicPlaceHolderNumberNotMatch
  ELSE IF /\ cfg.useWhereCheck
          /\ ~StrContainWithIgnoreCase(query, KwWhere)
          /\ ~StrContainWithIgnoreCase(query, disableWhereCheckClause)
    THEN PanicSelectSQLMustUseWhere
  ELSE IF /\ cfg.forceNowaitOnLockingRead
          /\ \/ StrContainWithIgnoreCase(query, KwForSelect)
             \/ StrContainWithIgnoreCase(query, KwForUpdate)
          /\ ~StrContainWithIgnoreCase(query, KwNowait)
    THEN PanicLockingReadMustUseNowait
  ELSE Pass

\* The checks of Query before it calls the driver, in the order of the code:
\* the fatal abort of the first check that fails, or Pass.
QueryChecks(mp, query, nargs) ==
  IF mp.nil THEN PanicMpNil
  ELSE IF Count(query, "$") # nargs THEN PanicPlaceHolderNumberNotMatch
  ELSE IF ~StrContainWithIgnoreCase(query, KwSelect)
    THEN PanicQueryNotContanSelect
  ELSE IF /\ cfg.useWhereCheck
          /\ ~StrContainWithIgnoreCase(query, KwWhere)
          /\ ~StrContainWithIgnoreCase(query, disableWhereCheckClause)
    THEN PanicSelectSQLMustUseWhere
  ELSE IF /\ cfg.forceNowaitOnLockingRead
          /\ \/ StrContainWithIgnoreCase(query, KwForSelect)
             \/ StrContainWithIgnoreCase(query, KwForUpdate)
          /\ ~StrContainWithIgnoreCase(query, KwNowait)
    THEN PanicLockingReadMustUseNowait
  ELSE Pass

\* Mutant of ExecChecks: the arguments are counted after the other checks.
ExecChecks_CountLast(query, nargs) ==
  IF /\ cfg.useWhereCheck
     /\ StrContainWithIgnoreCase(query, KwDelete)
     /\ ~StrContainWithIgnoreCase(query, KwWhere)
     /\ ~StrContainWithIgnoreCase(query, disableWhereCheckClause)
    THEN PanicDeleteSQLMustUseWhere
  ELSE IF /\ StrContainWithIgnoreCase(query, KwUpdate)
          /\ cfg.useWhereCheck
          /\ ~StrContainWithIgnoreCase(query, KwWhere)
          /\ ~StrContainWithIgnoreCase(query, disableWhereCheckClause)
    THEN PanicUpdateSQLMustUseWhere
  ELSE IF /\ StrContainWithIgnoreCase(query, KwUpdate)
          /\ cfg.forceUpdatedAtCheck
          /\ ~StrContainWithIgnoreCase(query, KwUpdatedAt)
    THEN PanicUpdateSQLMustHaveUpdatedAt
  ELSE IF Count(query, "$") # nargs THEN PanicPlaceHolderNumberNotMatch
  ELSE Pass

\* Mutant of ExecChecks: a DELETE is not asked for its WHERE.
ExecChecks_DeleteUnchecked(query, nargs) ==
  IF Count(query, "$") # nargs THEN PanicPlaceHolderNumberNotMatch
  ELSE IF ~StrContainWithIgnoreCase(query, KwUpdate) THEN Pass
  ELSE IF /\ cfg.useWhereCheck
          /\ ~StrContainWithIgnoreCase(query, KwWhere)
          /\ ~StrContainWithIgnoreCase(query, disableWhereCheckClause)
    THEN PanicUpdateSQLMustUseWhere
  ELSE IF /\ cfg.forceUpdatedAtCheck
          /\ ~StrContainWithIgnoreCase(query, KwUpdatedAt)
    THEN PanicUpdateSQLMustHaveUpdatedAt
  ELSE Pass

\* Mutant of ExecChecks: an UPDATE is not asked for updated_at.
ExecChecks_UpdatedAtUnchecked(query, nargs) ==
  IF Count(query, "$") # nargs THEN PanicPlaceHolderNumberNotMatch
  ELSE IF /\ cfg.useWhereCheck
          /\ StrContainWithIgnoreCase(query, KwDelete)
          /\ ~StrContainWithIgnoreCase(query, KwWhere)
          /\ ~StrContainWithIgnoreCase(query, disableWhereCheckClause)
    THEN PanicDeleteSQLMustUseWhere
  ELSE IF ~StrContainWithIgnoreCase(query, KwUpdate) THEN Pass
  ELSE IF /\ cfg.useWhereCheck
          /\ ~StrContainWithIgnoreCase(query, KwWhere)
          /\ ~StrContainWithIgnoreCase(query, disableWhereCheckClause)
    THEN PanicUpdateSQLMustUseWhere
  ELSE Pass

\* The checks of Exec before it calls the driver.
ExecChecks(query, nargs) ==
  IF Count(query, "$") # nargs THEN PanicPlaceHolderNumberNotMatch
  ELSE IF /\ cfg.useWhereCheck
          /\ StrContainWithIgnoreCase(query, KwDelete)
          /\ ~StrContainWithIgnoreCase(query, KwWhere)
          /\ ~StrContainWithIgnoreCase(query, disableWhereCheckClause)
    THEN PanicDeleteSQLMustUseWhere
  ELSE IF ~StrContainWithIgnoreCase(query, KwUpdate) THEN Pass
  ELSE IF /\ cfg.useWhereCheck
          /\ ~StrContainWithIgnoreCase(query, KwWhere)
          /\ ~StrContainWithIgnoreCase(query, disableWhereCheckClause)
    THEN PanicUpdateSQLMustUseWhere
  ELSE IF /\ cfg.forceUpdatedAtCheck
          /\ ~StrContainWithIgnoreCase(query, KwUpdatedAt)
    THEN PanicUpdateSQLMustHaveUpdatedAt
  ELSE Pass

\* ------------------------------------------------------------- plan audit

\* Nesting levels below the root that type Plan can hold.
PlanLevels == 10

SeqScan == <<"Seq", " ", "Scan">>
IndexScan == <<"Index", " ", "Scan">>
ParallelSeqScan == <<"Parallel", " ", "Seq", " ", "Scan">>

Node(t, plans) == [NodeType |-> t, Plans |-> plans]

\* json.Unmarshal into Plan: a node at level PlanLevels has no field for
\* its children, they are dropped.
RECURSIVE Unmarshal(_, _)
Unmarshal(node, level) ==
  Node(node.NodeType,
       IF level = PlanLevels THEN <<>>
       ELSE [i \in 1..Len(node.Plans) |->
               Unmarshal(node.Plans[i], level + 1)])

\* The nested loops ps1 .. ps10 over the decoded plan: some node of plans,
\* which are at the given level, or below it, is a sequential scan.
RECURSIVE plansHaveSeqScan(_, _)
plansHaveSeqScan(plans, level) ==
  \E i \in 1..Len(plans) :
    \/ StrContainWithIgnoreCase(plans[i].NodeType, SeqScan)
    \/ /\ level < PlanLevels
       /\ plansHaveSeqScan(plans[i].Plans, level + 1)

\* What the database does with the audit's transaction: a step that fails
\* (fault), the rows EXPLAIN gives (docs).
Explain(fault, docs) == [fault |-> fault, docs |-> docs]

\* A row of EXPLAIN: a JSON array of top-level plans, or a text that is no
\* such document.
Doc(plans) == [valid |-> TRUE, plans |-> plans]
BadDoc == [valid |-> FALSE, plans |-> <<>>]

PanicNotDebug == "not use this function without debug mode"
PanicSetFailed == "SET exec failed"
PanicExplainFailed == "query failed, failed query"
PanicNotOneRow == "explain result is not 1 row"
PanicNotOneChild == "explain result json is not 1 child"
PanicDriver == "driver error"
PanicJson == "json error"

\* How an audit ended: its result or fatal abort, and what it did to the
\* database: began a transaction, sent EXPLAIN, rolled back.
Audit(w, began, explained, rolledBack) ==
  [kind |-> w.kind, val |-> w.val, began |-> began,
   explained |-> explained, rolledBack |-> rolledBack]

NoAudit == Audit(None, FALSE, FALSE, FALSE)

\* Mutant of CheckSeqScan: only the root of the plan is looked at.
CheckSeqScan_RootOnly(query, ex) ==
  IF \/ ~cfg.useSeqScanCheck
     \/ StrContainWithIgnoreCase(query, seqScanCheckDisableClause)
    THEN Audit(Returned(TRUE), FALSE, FALSE, FALSE)
  ELSE IF isDebugMode.kind = "panic" THEN Audit(isDebugMode, FALSE, FALSE, FALSE)
  ELSE IF ~isDebugMode.val
    THEN Audit(Panicked(PanicNotDebug), FALSE, FALSE, FALSE)
  ELSE IF ex.fault = "begin"
    THEN Audit(Panicked(PanicBeginErr), FALSE, FALSE, FALSE)
  ELSE IF ex.fault = "set"
    THEN Audit(Panicked(PanicSetFailed), TRUE, FALSE, FALSE)
  ELSE IF ex.fault = "explain"
    THEN Audit(Panicked(PanicExplainFailed), TRUE, TRUE, FALSE)
  ELSE IF ex.fault = "rows"
    THEN Audit(Panicked(PanicDriver), TRUE, TRUE, FALSE)
  ELSE IF ex.fault = "rollback"
    THEN Audit(Panicked(PanicRollbackErr), TRUE, TRUE, FALSE)
  ELSE IF Len(ex.docs) # 1
    THEN Audit(Panicked(PanicNotOneRow), TRUE, TRUE, TRUE)
  ELSE IF ~ex.docs[1].valid
    THEN Audit(Panicked(PanicJson), TRUE, TRUE, TRUE)
  ELSE IF Len(ex.docs[1].plans) # 1
    THEN Audit(Panicked(PanicNotOneChild), TRUE, TRUE, TRUE)
  ELSE
    Audit(Returned(~StrContainWithIgnoreCase(ex.docs[1].plans[1].NodeType, SeqScan)),
          TRUE, TRUE, TRUE)

\* CheckSeqScan(query, args...), ex being what the database does.
CheckSeqScan(query, ex) ==
  IF \/ ~cfg.useSeqScanCheck
     \/ StrContainWithIgnoreCase(query, seqScanCheckDisableClause)
    THEN Audit(Returned(TRUE), FALSE, FALSE, FALSE)
  ELSE IF isDebugMode.kind = "panic" THEN Audit(isDebugMode, FALSE, FALSE, FALSE)
  ELSE IF ~isDebugMode.val
    THEN Audit(Panicked(PanicNotDebug), FALSE, FALSE, FALSE)
  ELSE IF ex.fault = "begin"
    THEN Audit(Panicked(PanicBeginErr), FALSE, FALSE, FALSE)
  ELSE IF ex.fault = "set"
    THEN Audit(Panicked(PanicSetFailed), TRUE, FALSE, FALSE)
  ELSE IF ex.fault = "explain"
    THEN Audit(Panicked(PanicExplainFailed), TRUE, TRUE, FALSE)
  ELSE IF ex.fault = "rows"
    THEN Audit(Panicked(PanicDriver), TRUE, TRUE, FALSE)
  ELSE IF ex.fault = "rollback"
    THEN Audit(Panicked(PanicRollbackErr), TRUE, TRUE, FALSE)
  ELSE IF Len(ex.docs) # 1
    THEN Audit(Panicked(PanicNotOneRow), TRUE, TRUE, TRUE)
  ELSE IF ~ex.docs[1].valid
    THEN Audit(Panicked(PanicJson), TRUE, TRUE, TRUE)
  ELSE IF Len(ex.docs[1].plans) # 1
    THEN Audit(Panicked(PanicNotOneChild), TRUE, TRUE, TRUE)
  ELSE
    LET p == Unmarshal(ex.docs[1].plans[1], 0) IN
    Audit(Returned(~(\/ StrContainWithIgnoreCase(p.NodeType, SeqScan)
                     \/ plansHaveSeqScan(p.Plans, 1))),
          TRUE, TRUE, TRUE)

\* -------------------------------------------------------- materialization

\* A Go value as the wrappers and the driver see it: its type (of the
\* pointee for a pointer), whether it is a pointer, whether it is nil, and
\* the string or the number it holds.
Value(t, ptr, nil, s, n) ==
  [t |-> t, ptr |-> ptr, nil |-> nil, s |-> s, n |-> n]

IntV(n) == Value("int", FALSE, FALSE, "", n)
StrV(s) == Value("string", FALSE, FALSE, s, 0)

\* A time.Time: the instant number i.
TimeV(i) == Value("time", FALSE, FALSE, "", i)

\* The untyped nil that stands for the SQL NULL.
NullV == Value("nil", FALSE, TRUE, "", 0)

\* &v, the nil pointer of type *t, and *p.
PtrV(v) == [v EXCEPT !.ptr = TRUE]
NilPtr(t) == Value(t, TRUE, TRUE, "", 0)
Elem(p) == [p EXCEPT !.ptr = FALSE]

\* The zero value of the type of v.
Zero(v) == Value(v.t, v.ptr, v.ptr, "", 0)

\* rows.Scan of the column value src into the field that holds dest: a
\* pointer field becomes nil for NULL and points to a new value otherwise,
\* any other field takes the value.
ConvertAssign(dest, src) ==
  IF dest.ptr THEN (IF src.nil THEN NilPtr(dest.t) ELSE PtrV(src)) ELSE src

\* The record a caller passes to Query through mp: whether its type is a
\* struct, the name and the database tag of each field ("" for a field
\* without one) and the value each field holds.
Model(struct, names, tags, vals) ==
  [nil |-> FALSE, struct |-> struct, names |-> names, tags |-> tags,
   vals |-> vals]

\* mp == nil
NilModel ==
  [nil |-> TRUE, struct |-> FALSE, names |-> <<>>, tags |-> <<>>,
   vals |-> <<>>]

\* What the driver gives for a statement it executed: the column names, the
\* rows, and the call on the rows that fails, if one does.
ResultSet(cols, rows, fault) == [cols |-> cols, rows |-> rows, fault |-> fault]

PanicNotStruct == "model mubt be struct."
PanicNoLabel == " has no database label."
PanicNoField == "model does not have result field: "

Max(S) == CHOOSE x \in S : \A y \in S : y <= x

\* structFieldNameToTypeMap[c]: the field the map holds for column name c.
\* The loop over the fields overwrites an entry: the last field wins.
FieldOf(tags, c) == Max({i \in 1..Len(tags) : tags[i] = c})

\* Mutant of Scan: the columns go to the fields by position, not by name.
Scan_ByPosition(vals, tags, cols, row) ==
  [f \in 1..Len(vals) |-> IF f <= Len(row) THEN row[f] ELSE vals[f]]

\* rows.Scan into the field addresses, column after column, of a record
\* that starts as the copy vals of *mp.
Scan(vals, tags, cols, row) ==
  [f \in 1..Len(vals) |->
     LET cs == {c \in 1..Len(cols) : FieldOf(tags, cols[c]) = f} IN
     IF cs = {} THEN vals[f] ELSE ConvertAssign(vals[f], row[Max(cs)])]

\* Mutant of RowLoop: each row is scanned into a zero-valued record.
RECURSIVE RowLoop_IntoZero(_, _, _, _)
RowLoop_IntoZero(mp, rs, k, r) ==
  IF k > Len(rs.rows) THEN r
  ELSE RowLoop_IntoZero(mp, rs, k + 1,
         Append(r, Scan([f \in 1..Len(mp.vals) |-> Zero(mp.vals[f])],
                        mp.tags, rs.cols, rs.rows[k])))

\* for rows.Next() { structValue = *mp; rows.Scan(...); r = append(r,
\* structValue) } from row k on, r being the records of the rows before.
RECURSIVE RowLoop(_, _, _, _)
RowLoop(mp, rs, k, r) ==
  IF k > Len(rs.rows) THEN r
  ELSE RowLoop(mp, rs, k + 1,
         Append(r, Scan(mp.vals, mp.tags, rs.cols, rs.rows[k])))

\* Query from the field map to the end of the row loop: the records, or the
\* fatal abort of the first step that fails.
Materialize(mp, rs) ==
  IF ~mp.struct THEN Panicked(<<PanicNotStruct>>)
  ELSE IF \E i \in 1..Len(mp.tags) : mp.tags[i] = ""
    THEN Panicked(
           <<mp.names[CHOOSE i \in 1..Len(mp.tags) :
               mp.tags[i] = "" /\ \A j \in 1..(i - 1) : mp.tags[j] # ""],
             PanicNoLabel>>)
  ELSE IF rs.fault = "columns" THEN Panicked(<<PanicDriver>>)
  ELSE IF \E c \in 1..Len(rs.cols) :
            \A i \in 1..Len(mp.tags) : mp.tags[i] # rs.cols[c]
    THEN Panicked(
           <<PanicNoField,
             rs.cols[CHOOSE c \in 1..Len(rs.cols) :
               /\ \A i \in 1..Len(mp.tags) : mp.tags[i] # rs.cols[c]
               /\ \A d \in 1..(c - 1) :
                    \E i \in 1..Len(mp.tags) : mp.tags[i] = rs.cols[d]]>>)
  ELSE IF rs.fault = "scan" /\ Len(rs.rows) > 0
    THEN Panicked(<<PanicDriver>>)
  ELSE IF \E k \in 1..Len(rs.rows), c \in 1..Len(rs.cols) :
            rs.rows[k][c].nil /\ ~mp.vals[FieldOf(mp.tags, rs.cols[c])].ptr
    THEN Panicked(<<PanicDriver>>)
  ELSE IF rs.fault = "rows" THEN Panicked(<<PanicDriver>>)
  ELSE Returned(RowLoop(mp, rs, 1, <<>>))

\* ------------------------------------------------ Query, QueryFirst, Exec

\* fmt.Sprintf(PanicSQLIsSeqScan, query)
SeqScanMsg(query) == <<PanicSQLIsSeqScan>> \o query

\* How a call ended (out: the fatal abort with its text, or the pair the call
\* returned), the handle the statement went to, if it went to
\* one (via), and what the plan audit did.
Res(out, via, audit) == [out |-> out, via |-> via, audit |-> audit]

\* What a wrapper gives back: its value and its error.
Pair(val, err) == [val |-> val, err |-> err]

\* A nil slice or a nil pointer, and the slice []M that holds elems.
NilRef == [nil |-> TRUE]
Slice(elems) == [nil |-> FALSE, elems |-> elems]

\* &result[i-1]
Ptr(slice, i) == [nil |-> FALSE, slice |-> slice, index |-> i]

\* if tx == nil { tx = DB }
Handle(h) == IF h = Nil THEN "pool" ELSE h

\* Mutant of AuditStage: the plan is audited whatever Mode says.
AuditStage_AnyMode(out, query, via, ex) ==
  LET a == CheckSeqScan(query, ex) IN
  IF a.kind = "panic" THEN Res(Panicked(<<a.val>>), via, a)
  ELSE IF ~a.val THEN Res(Panicked(SeqScanMsg(query)), via, a)
  ELSE Res(out, via, a)

\* The end of Query and of Exec: in debug mode the plan of the statement is
\* audited, and a sequential scan is a fatal abort; else the call returns
\* out.
AuditStage(out, query, via, ex) ==
  IF isDebugMode.kind = "panic"
    THEN Res(Panicked(<<isDebugMode.val>>), via, NoAudit)
  ELSE IF ~isDebugMode.val THEN Res(out, via, NoAudit)
  ELSE LET a == CheckSeqScan(query, ex) IN
       IF a.kind = "panic" THEN Res(Panicked(<<a.val>>), via, a)
       ELSE IF ~a.val THEN Res(Panicked(SeqScanMsg(query)), via, a)
       ELSE Res(out, via, a)

\* Query(tx, mp, query, args...): mp and the text are the caller's, nargs is
\* len(args); drv, rs and ex are what the driver answers to the statement,
\* gives as its result set, and does with the audit.
QueryCall(h, mp, query, nargs, drv, rs, ex) ==
  IF QueryChecks(mp, query, nargs) # Pass
    THEN Res(Panicked(<<QueryChecks(mp, query, nargs)>>), "none", NoAudit)
  ELSE IF Query(drv).kind = "panic"
    THEN Res(Panicked(<<Query(drv).val>>), Handle(h), NoAudit)
  ELSE IF Query(drv).val # Nil
    THEN Res(Returned(Pair(NilRef, Query(drv).val)), Handle(h), NoAudit)
  ELSE IF Materialize(mp, rs).kind = "panic"
    THEN Res(Materialize(mp, rs), Handle(h), NoAudit)
  ELSE AuditStage(Returned(Pair(Slice(Materialize(mp, rs).val), Nil)),
                  query, Handle(h), ex)

\* QueryFirst(tx, mp, query, args...)
QueryFirstCall(h, mp, query, nargs, drv, rs, ex) ==
  LET q == QueryCall(h, mp, query, nargs, drv, rs, ex) IN
  IF q.out.kind = "panic" THEN q
  ELSE IF q.out.val.err # Nil
    THEN [q EXCEPT !.out = Returned(Pair(NilRef, q.out.val.err))]
  ELSE IF Len(q.out.val.val.elems) < 1
    THEN [q EXCEPT !.out = Returned(Pair(NilRef, Nil))]
  ELSE [q EXCEPT !.out = Returned(Pair(Ptr(q.out.val.val.elems, 1), Nil))]

\* The sql.Result of a statement that succeeded.
SqlResult == "result"

\* Mutant of ExecCall: the statement goes to the handle before the checks.
ExecCall_ExecuteFirst(h, query, nargs, drv, ex) ==
  IF ExecChecks(query, nargs) # Pass
    THEN Res(Panicked(<<ExecChecks(query, nargs)>>), Handle(h), NoAudit)
  ELSE IF Exec(drv).kind = "panic"
    THEN Res(Panicked(<<Exec(drv).val>>), Handle(h), NoAudit)
  ELSE IF Exec(drv).val # Nil
    THEN Res(Returned(Pair(Nil, Exec(drv).val)), Handle(h), NoAudit)
  ELSE AuditStage(Returned(Pair(SqlResult, Nil)), query, Handle(h), ex)

\* Exec(tx, query, args...)
ExecCall(h, query, nargs, drv, ex) ==
  IF ExecChecks(query, nargs) # Pass
    THEN Res(Panicked(<<ExecChecks(query, nargs)>>), "none", NoAudit)
  ELSE IF Exec(drv).kind = "panic"
    THEN Res(Panicked(<<Exec(drv).val>>), Handle(h), NoAudit)
  ELSE IF Exec(drv).val # Nil
    THEN Res(Returned(Pair(Nil, Exec(drv).val)), Handle(h), NoAudit)
  ELSE AuditStage(Returned(Pair(SqlResult, Nil)), query, Handle(h), ex)

\* ------------------------------------------------------ statement builders

\* strings.Join(elems, sep)
RECURSIVE Join(_, _)
Join(elems, sep) ==
  IF Len(elems) = 0 THEN <<>>
  ELSE IF Len(elems) = 1 THEN elems[1]
  ELSE elems[1] \o sep \o Join(Tail(elems), sep)

\* The decimal digit d.
Digit(d) ==
  CASE d = 0 -> "0" [] d = 1 -> "1" [] d = 2 -> "2" [] d = 3 -> "3"
    [] d = 4 -> "4" [] d = 5 -> "5" [] d = 6 -> "6" [] d = 7 -> "7"
    [] d = 8 -> "8" [] d = 9 -> "9"

\* strconv.Itoa(n) for n >= 0: the decimal digits of n.
RECURSIVE Itoa(_)
Itoa(n) ==
  IF n < 10 THEN <<Digit(n)>> ELSE Itoa(n \div 10) \o <<Digit(n % 10)>>

\* Mutant of replacePlaceholders: every marker gets the first number.
RECURSIVE replacePlaceholders_NoCount(_, _)
replacePlaceholders_NoCount(query, startIdx) ==
  IF Len(query) = 0 THEN <<>>
  ELSE IF Head(query) = "?"
    THEN <<"$">> \o Itoa(startIdx + 1)
           \o replacePlaceholders_NoCount(Tail(query), startIdx)
  ELSE <<Head(query)>> \o replacePlaceholders_NoCount(Tail(query), startIdx)

\* replacePlaceholders: every "?" of the text, from the left, becomes "$"
\* and the next number after startIdx.
RECURSIVE replacePlaceholders(_, _)
replacePlaceholders(query, startIdx) ==
  IF Len(query) = 0 THEN <<>>
  ELSE IF Head(query) = "?"
    THEN <<"$">> \o Itoa(startIdx + 1)
           \o replacePlaceholders(Tail(query), startIdx + 1)
  ELSE <<Head(query)>> \o replacePlaceholders(Tail(query), startIdx)

\* The letters of type names: upper case, and lower case or digit.
IsUpper(c) == c \in {"T", "U"}
IsLowerOrDigit(c) == c \in {"t", "u", "s", "2"}

\* regexp "([a-z0-9])([A-Z])" replaced by "${1}_${2}", from the left.
RECURSIVE Snake(_)
Snake(str) ==
  IF Len(str) < 2 THEN str
  ELSE IF IsLowerOrDigit(str[1]) /\ IsUpper(str[2])
    THEN <<str[1], "_", str[2]>> \o Snake(SubSeq(str, 3, Len(str)))
  ELSE <<str[1]>> \o Snake(Tail(str))

\* toTableName: snake case, lower case, and an "s".
toTableName(str) == ToLower(Snake(str)) \o <<"s">>

\* A record with the name of its type, as the builders take it: by value or
\* through a pointer.
Named(name, m) ==
  [nil |-> m.nil, struct |-> m.struct, names |-> m.names, tags |-> m.tags,
   vals |-> m.vals, name |-> name]

PanicMustBeStruct == "must be a struct"

\* checkAndGetStructValue(s): the struct s is or points to, or the fatal
\* abort for anything else, a nil pointer included.
checkAndGetStructValue(s) ==
  IF s.struct /\ ~s.nil THEN Returned(s)
  ELSE Panicked(<<PanicMustBeStruct>>)

\* What a builder returns: the text and the values.
Built(sql, values) == Returned([sql |-> sql, values |-> values])

\* " WHERE " + strings.Join(whereClauses, " AND "), or nothing.
WhereClause(whereClauses) ==
  IF Len(whereClauses) > 0
    THEN <<" ", "WHERE", " ">> \o Join(whereClauses, <<" ", "AND", " ">>)
    ELSE <<>>

\* The map limitOffset: nil, or with any of the keys "limit" and "offset"
\* (a sequence of no or one number each).
LimitOffset(limit, offset) ==
  [nil |-> FALSE, limit |-> limit, offset |-> offset]
NilLimitOffset == [nil |-> TRUE, limit |-> <<>>, offset |-> <<>>]

\* getQuerySQL
getQuerySQL(s, whereClauses, whereValues, orderByClauses, limitOffset) ==
  IF checkAndGetStructValue(s).kind = "panic" THEN checkAndGetStructValue(s)
  ELSE
    LET hasLimit == ~limitOffset.nil /\ Len(limitOffset.limit) > 0
        hasOffset == ~limitOffset.nil /\ Len(limitOffset.offset) > 0
        values ==
          whereValues
            \o (IF hasLimit THEN <<IntV(limitOffset.limit[1])>> ELSE <<>>)
            \o (IF hasOffset THEN <<IntV(limitOffset.offset[1])>> ELSE <<>>)
        query ==
          <<"SELECT", " ", "*", " ", "FROM", " ">> \o toTableName(s.name)
            \o WhereClause(whereClauses)
            \o (IF Len(orderByClauses) > 0
                  THEN <<" ", "ORDER", " ", "BY", " ">>
                         \o Join(orderByClauses, <<",", " ">>)
                  ELSE <<>>)
            \o (IF hasLimit THEN <<" ", "LIMIT", " ", "?">> ELSE <<>>)
            \o (IF hasOffset THEN <<" ", "OFFSET", " ", "?">> ELSE <<>>)
    IN Built(replacePlaceholders(query, 0), values)

\* The sentinel a caller writes for the instant of the update.
NOW == StrV("NOW")

\* Mutant of getUpdateSQL: the clock is read again for updated_at.
getUpdateSQL_SecondClock(s, whereClauses, whereValues, setClauses, setValues, now) ==
  IF checkAndGetStructValue(s).kind = "panic" THEN checkAndGetStructValue(s)
  ELSE
    LET values ==
          [i \in 1..Len(setValues) |->
             IF setValues[i] = NOW THEN TimeV(now) ELSE setValues[i]]
            \o <<TimeV(now + 1)>> \o whereValues
        setClauses2 == Append(setClauses, <<"updated_at", " ", "=", " ", "?">>)
        query ==
          <<"UPDATE", " ">> \o toTableName(s.name) \o <<" ", "SET", " ">>
            \o Join(setClauses2, <<",", " ">>) \o WhereClause(whereClauses)
    IN Built(replacePlaceholders(query, 0), values)

\* getUpdateSQL, now being what time.Now() reads.
getUpdateSQL(s, whereClauses, whereValues, setClauses, setValues, now) ==
  IF checkAndGetStructValue(s).kind = "panic" THEN checkAndGetStructValue(s)
  ELSE
    LET values ==
          [i \in 1..Len(setValues) |->
             IF setValues[i] = NOW THEN TimeV(now) ELSE setValues[i]]
            \o <<TimeV(now)>> \o whereValues
        setClauses2 == Append(setClauses, <<"updated_at", " ", "=", " ", "?">>)
        query ==
          <<"UPDATE", " ">> \o toTableName(s.name) \o <<" ", "SET", " ">>
            \o Join(setClauses2, <<",", " ">>) \o WhereClause(whereClauses)
    IN Built(replacePlaceholders(query, 0), values)

\* getDeleteSQL
getDeleteSQL(s, whereClauses) ==
  IF checkAndGetStructValue(s).kind = "panic" THEN checkAndGetStructValue(s)
  ELSE Built(replacePlaceholders(
               <<"DELETE", " ", "FROM", " ">> \o toTableName(s.name)
                 \o WhereClause(whereClauses), 0),
             <<>>)

\* The value a field contributes to an INSERT: nil for a nil pointer, what
\* a pointer points to, the field itself otherwise.
FieldValue(v) == IF v.ptr THEN (IF v.nil THEN NullV ELSE Elem(v)) ELSE v

\* The indices, from i on and in declaration order, of the fields of tags
\* whose annotation is not in ignores.
RECURSIVE fieldIndices(_, _, _)
fieldIndices(tags, ignores, i) ==
  IF i > Len(tags) THEN <<>>
  ELSE IF tags[i] \in ignores THEN fieldIndices(tags, ignores, i + 1)
  ELSE <<i>> \o fieldIndices(tags, ignores, i + 1)

\* Mutant of QuotedFields: the columns are listed from the last field to
\* the first.
QuotedFields_Reversed(tags, idx) ==
  [j \in 1..Len(idx) |-> <<"\"", tags[idx[Len(idx) + 1 - j]], "\"">>]

\* `"` + fieldName + `"` for each included field.
QuotedFields(tags, idx) ==
  [j \in 1..Len(idx) |-> <<"\"", tags[idx[j]], "\"">>]

\* "$" + strconv.Itoa(n) for n = from .. from + k - 1.
Placeholders(from, k) == [j \in 1..k |-> <<"$">> \o Itoa(from + j - 1)]

\* Mutant of getInsertSQL: an unset pointer contributes the pointer itself.
getInsertSQL_RawPointer(s, ignores) ==
  IF checkAndGetStructValue(s).kind = "panic" THEN checkAndGetStructValue(s)
  ELSE
    LET idx == fieldIndices(s.tags, ignores, 1)
        values == [j \in 1..Len(idx) |-> s.vals[idx[j]]]
        query ==
          <<"INSERT", " ", "INTO", " ">> \o toTableName(s.name) \o <<" ", "(">>
            \o Join(QuotedFields(s.tags, idx), <<",", " ">>)
            \o <<")", " ", "VALUES", " ", "(">>
            \o Join(Placeholders(1, Len(values)), <<",", " ">>) \o <<")">>
    IN Built(query, values)

\* getInsertSQL
getInsertSQL(s, ignores) ==
  IF checkAndGetStructValue(s).kind = "panic" THEN checkAndGetStructValue(s)
  ELSE
    LET idx == fieldIndices(s.tags, ignores, 1)
        values == [j \in 1..Len(idx) |-> FieldValue(s.vals[idx[j]])]
        query ==
          <<"INSERT", " ", "INTO", " ">> \o toTableName(s.name) \o <<" ", "(">>
            \o Join(QuotedFields(s.tags, idx), <<",", " ">>)
            \o <<")", " ", "VALUES", " ", "(">>
            \o Join(Placeholders(1, Len(values)), <<",", " ">>) \o <<")">>
    IN Built(query, values)

\* Mutant of ValueGroups: the counter starts again for every item.
RECURSIVE ValueGroups_PerItem(_, _, _, _)
ValueGroups_PerItem(items, idx, j, paramCount) ==
  IF j > Len(items) THEN Returned([groups |-> <<>>, values |-> <<>>])
  ELSE IF checkAndGetStructValue(items[j]).kind = "panic"
    THEN checkAndGetStructValue(items[j])
  ELSE
    LET rest == ValueGroups_PerItem(items, idx, j + 1, paramCount)
    IN IF rest.kind = "panic" THEN rest
       ELSE Returned(
         [groups |->
            <<<<"(">> \o Join(Placeholders(paramCount, Len(idx)), <<",", " ">>)
                \o <<")">>>> \o rest.val.groups,
          values |->
            [m \in 1..Len(idx) |-> FieldValue(items[j].vals[idx[m]])]
              \o rest.val.values])

\* The loop over the items of getBulkInsertSQL, from item j on with the
\* counter at paramCount: one value group and its values per item.
RECURSIVE ValueGroups(_, _, _, _)
ValueGroups(items, idx, j, paramCount) ==
  IF j > Len(items) THEN Returned([groups |-> <<>>, values |-> <<>>])
  ELSE IF checkAndGetStructValue(items[j]).kind = "panic"
    THEN checkAndGetStructValue(items[j])
  ELSE
    LET rest == ValueGroups(items, idx, j + 1, paramCount + Len(idx))
    IN IF rest.kind = "panic" THEN rest
       ELSE Returned(
         [groups |->
            <<<<"(">> \o Join(Placeholders(paramCount, Len(idx)), <<",", " ">>)
                \o <<")">>>> \o rest.val.groups,
          values |->
            [m \in 1..Len(idx) |-> FieldValue(items[j].vals[idx[m]])]
              \o rest.val.values])

\* getBulkInsertSQL: the empty text and no values for no item.
getBulkInsertSQL(items, ignores) ==
  IF Len(items) = 0 THEN Built(<<>>, <<>>)
  ELSE IF checkAndGetStructValue(items[1]).kind = "panic"
    THEN checkAndGetStructValue(items[1])
  ELSE
    LET idx == fieldIndices(items[1].tags, ignores, 1)
        vg == ValueGroups(items, idx, 1, 1)
    IN IF vg.kind = "panic" THEN vg
       ELSE Built(
         <<"INSERT", " ", "INTO", " ">> \o toTableName(items[1].name)
           \o <<" ", "(">> \o Join(QuotedFields(items[1].tags, idx), <<",", " ">>)
           \o <<")", " ", "VALUES", " ">>
           \o Join(vg.val.groups, <<",", " ">>),
         vg.val.values)

\* What an entry point did: what its builder gave (None when it built
\* nothing) and how the call of Query, QueryFirst or Exec ended.
Orm(built, res) == [built |-> built, res |-> res]

\* Find(tx, mp, whereClauses, whereValues)
Find(h, mp, whereClauses, whereValues, drv, rs, ex) ==
  LET b == getQuerySQL(mp, whereClauses, whereValues, <<>>, NilLimitOffset) IN
  IF b.kind = "panic" THEN Orm(b, Res(b, "none", NoAudit))
  ELSE Orm(b, QueryCall(h, mp, b.val.sql, Len(b.val.values), drv, rs, ex))

\* First(tx, mp, whereClauses, whereValues)
First(h, mp, whereClauses, whereValues, drv, rs, ex) ==
  LET b == getQuerySQL(mp, whereClauses, whereValues, <<>>, NilLimitOffset) IN
  IF b.kind = "panic" THEN Orm(b, Res(b, "none", NoAudit))
  ELSE Orm(b, QueryFirstCall(h, mp, b.val.sql, Len(b.val.values), drv, rs, ex))

\* The keys a set map may hold, sorted, and getOrderedKeys.
SortedKeys == <<"name", "uid">>
RECURSIVE KeysFrom(_, _)
KeysFrom(setMaps, i) ==
  IF i > Len(SortedKeys) THEN <<>>
  ELSE IF SortedKeys[i] \in DOMAIN setMaps
    THEN <<SortedKeys[i]>> \o KeysFrom(setMaps, i + 1)
  ELSE KeysFrom(setMaps, i + 1)
getOrderedKeys(setMaps) == KeysFrom(setMaps, 1)

\* UpdateWithClauses(tx, s, whereClauses, whereValues, setClauses, setValues)
UpdateWithClauses(h, s, whereClauses, whereValues, setClauses, setValues, now, drv, ex) ==
  LET b == getUpdateSQL(s, whereClauses, whereValues, setClauses, setValues,
                        now) IN
  IF b.kind = "panic" THEN Orm(b, Res(b, "none", NoAudit))
  ELSE Orm(b, ExecCall(h, b.val.sql, Len(b.val.values), drv, ex))

\* Update(tx, s, whereClauses, whereValues, setMaps)
Update(h, s, whereClauses, whereValues, setMaps, now, drv, ex) ==
  LET setField == getOrderedKeys(setMaps) IN
  UpdateWithClauses(h, s, whereClauses, whereValues,
                    [i \in 1..Len(setField) |->
                       <<setField[i], " ", "=", " ", "?">>],
                    [i \in 1..Len(setField) |-> setMaps[setField[i]]],
                    now, drv, ex)

\* Delete(tx, s, whereClauses, whereValues)
Delete(h, s, whereClauses, whereValues, drv, ex) ==
  LET b == getDeleteSQL(s, whereClauses) IN
  IF b.kind = "panic" THEN Orm(b, Res(b, "none", NoAudit))
  ELSE Orm(b, ExecCall(h, b.val.sql, Len(whereValues), drv, ex))

\* InsertWithIgnores(tx, s, ignores)
InsertWithIgnores(h, s, ignores, drv, ex) ==
  LET b == getInsertSQL(s, ignores) IN
  IF b.kind = "panic" THEN Orm(b, Res(b, "none", NoAudit))
  ELSE Orm(b, ExecCall(h, b.val.sql, Len(b.val.values), drv, ex))

\* Insert(tx, s)
Insert(h, s, drv, ex) ==
  InsertWithIgnores(h, s, {"id", "created_at", "updated_at"}, drv, ex)

\* InsertBulkWithIgnores(tx, items, ignores): (nil, nil) for no item.
InsertBulkWithIgnores(h, items, ignores, drv, ex) ==
  IF Len(items) = 0
    THEN Orm(None, Res(Returned(Pair(Nil, Nil)), "none", NoAudit))
  ELSE
    LET b == getBulkInsertSQL(items, ignores) IN
    IF b.kind = "panic" THEN Orm(b, Res(b, "none", NoAudit))
    ELSE Orm(b, ExecCall(h, b.val.sql, Len(b.val.values), drv, ex))

\* InsertBulk(tx, items)
InsertBulk(h, items, drv, ex) ==
  InsertBulkWithIgnores(h, items, {"id", "created_at", "updated_at"}, drv, ex)

\* No call outside a callback is under way.
NoCall == [fn |-> "none"]

\* ---------------------------------------------------------------- actions

\* The tests start from an empty table (refreshDB) or from one that holds
\* the row "aa" (TestPanicLock, TestLockError).
Init ==
  /\ pc = [p \in Procs |-> "start"]
  /\ tx = [p \in Procs |-> "Idle"]
  /\ table \in {{}, {"aa"}}
  /\ ins = [p \in Procs |-> {}]
  /\ locks = [p \in Procs |-> {}]
  /\ log = [p \in Procs |-> <<>>]
  /\ fCalls = [p \in Procs |-> 0]
  /\ fRet = [p \in Procs |-> None]
  /\ outcome = [p \in Procs |-> None]
  /\ nRollback = [p \in Procs |-> 0]
  /\ nCommit = [p \in Procs |-> 0]
  /\ endRes = [p \in Procs |-> "none"]
  /\ cfg = DefaultCfg
  /\ call = NoCall

\* Transaction: DB.Begin succeeds and doAndRecover invokes the callback.
Begin(p) ==
  /\ pc[p] = "start"
  /\ pc' = [pc EXCEPT ![p] = "f"]
  /\ tx' = [tx EXCEPT ![p] = "Active"]
  /\ fCalls' = [fCalls EXCEPT ![p] = @ + 1]
  /\ UNCHANGED <<table, ins, locks, log, fRet, outcome, nRollback, nCommit,
                 endRes>>
  /\ UNCHANGED <<cfg, call>>

\* Mutant of BeginFail: the failure of Begin is returned as an error value.
BeginFail_ReturnsErr(p) ==
  /\ pc[p] = "start"
  /\ pc' = [pc EXCEPT ![p] = "done"]
  /\ outcome' = [outcome EXCEPT ![p] = Returned(PanicBeginErr)]
  /\ UNCHANGED <<tx, table, ins, locks, log, fCalls, fRet, nRollback,
                 nCommit, endRes>>
  /\ UNCHANGED <<cfg, call>>

\* Transaction: DB.Begin fails, panic(err).
BeginFail(p) ==
  /\ pc[p] = "start"
  /\ pc' = [pc EXCEPT ![p] = "done"]
  /\ outcome' = [outcome EXCEPT ![p] = Panicked(PanicBeginErr)]
  /\ UNCHANGED <<tx, table, ins, locks, log, fCalls, fRet, nRollback,
                 nCommit, endRes>>
  /\ UNCHANGED <<cfg, call>>

\* The callback calls Exec(tx, "INSERT ... uid = k").  In a failed
\* transaction the server refuses every statement (an error with none of
\* the three codes).  A key that is committed, or that the transaction
\* inserted itself, is a unique violation.  A key another open transaction
\* inserted makes the insert wait.  Otherwise the row is inserted.
ExecInsert(p, k) ==
  /\ pc[p] = "f"
  /\ Len(log[p]) < MaxStmts
  /\ LET env == EnvAt(p, k) IN
       IF tx[p] = "Failed"
         THEN StmtReturn(p, Entry("insert", k, env, "aborted", DrvErr({}), 0),
                         Exec(DrvErr({})), tx[p], ins[p], locks[p])
       ELSE IF k \in table \cup ins[p]
         THEN StmtReturn(p,
                Entry("insert", k, env, "dup",
                      DrvErr({PostgresErrCodeUniqConstraint}), 0),
                Exec(DrvErr({PostgresErrCodeUniqConstraint})),
                "Failed", ins[p], locks[p])
       ELSE IF env.blocker # {}
         THEN /\ log' = [log EXCEPT ![p] =
                           Append(@, Entry("insert", k, env, "wait", DrvOk, 0))]
              /\ pc' = [pc EXCEPT ![p] = "wait"]
              /\ UNCHANGED <<tx, table, ins, locks, fCalls, fRet, outcome,
                             nRollback, nCommit, endRes>>
       ELSE StmtReturn(p, Entry("insert", k, env, "ok", DrvOk, 1),
                       Exec(DrvOk), tx[p], ins[p] \cup {k}, locks[p])
  /\ UNCHANGED <<cfg, call>>

\* A waiting insert goes on once no other open transaction holds an
\* uncommitted row with its key: a unique violation if the key was
\* committed meanwhile, the insert otherwise.
InsertWake(p) ==
  /\ pc[p] = "wait"
  /\ LET e == Last(p) IN
       /\ \A q \in Others(p) : e.key \notin ins[q]
       /\ IF e.key \in table
            THEN StmtReturn(p,
                   [e EXCEPT !.cause = "dup",
                             !.drv = DrvErr({PostgresErrCodeUniqConstraint})],
                   Exec(DrvErr({PostgresErrCodeUniqConstraint})),
                   "Failed", ins[p], locks[p])
            ELSE StmtReturn(p, [e EXCEPT !.cause = "ok", !.rows = 1],
                            Exec(DrvOk), tx[p], ins[p] \cup {e.key}, locks[p])
  /\ UNCHANGED <<cfg, call>>

\* Two inserts wait for each other: the server detects the deadlock and
\* fails one of them with 40P01.
DeadlockAbort(p) ==
  /\ pc[p] = "wait"
  /\ \E q \in Others(p) :
       /\ pc[q] = "wait"
       /\ Last(p).key \in ins[q]
       /\ Last(q).key \in ins[p]
  /\ StmtReturn(p,
       [Last(p) EXCEPT !.cause = "deadlock",
                       !.drv = DrvErr({PostgresErrCodeDeadLock})],
       Exec(DrvErr({PostgresErrCodeDeadLock})), "Failed", ins[p], locks[p])
  /\ UNCHANGED <<cfg, call>>

\* The callback calls Query(tx, "SELECT ... WHERE uid = k FOR UPDATE NOWAIT").
\* A visible row locked by another open transaction fails at once with
\* 55P03; a visible row is locked and returned; no visible row returns none.
QueryForUpdateNowait(p, k) ==
  /\ pc[p] = "f"
  /\ Len(log[p]) < MaxStmts
  /\ LET env == EnvAt(p, k) IN
       IF tx[p] = "Failed"
         THEN StmtReturn(p, Entry("lock", k, env, "aborted", DrvErr({}), 0),
                         Query(DrvErr({})), tx[p], ins[p], locks[p])
       ELSE IF k \in table /\ env.holder # {}
         THEN StmtReturn(p,
                Entry("lock", k, env, "locked",
                      DrvErr({PostgresErrCodeLockNotAvailable}), 0),
                Query(DrvErr({PostgresErrCodeLockNotAvailable})),
                "Failed", ins[p], locks[p])
       ELSE IF k \in table \cup ins[p]
         THEN StmtReturn(p, Entry("lock", k, env, "ok", DrvOk, 1),
                         Query(DrvOk), tx[p], ins[p], locks[p] \cup {k})
       ELSE StmtReturn(p, Entry("lock", k, env, "ok", DrvOk, 0),
                       Query(DrvOk), tx[p], ins[p], locks[p])
  /\ UNCHANGED <<cfg, call>>

\* The driver fails a statement for a reason of its own (connection, syntax,
\* a type error, ...), with an error text that holds any of the codes.
ExecFault(p, k, text) ==
  /\ pc[p] = "f"
  /\ Len(log[p]) < MaxStmts
  /\ StmtReturn(p, Entry("insert", k, EnvAt(p, k), "fault", DrvErr(text), 0),
                Exec(DrvErr(text)), "Failed", ins[p], locks[p])
  /\ UNCHANGED <<cfg, call>>

QueryFault(p, k, text) ==
  /\ pc[p] = "f"
  /\ Len(log[p]) < MaxStmts
  /\ StmtReturn(p, Entry("lock", k, EnvAt(p, k), "fault", DrvErr(text), 0),
                Query(DrvErr(text)), "Failed", ins[p], locks[p])
  /\ UNCHANGED <<cfg, call>>

\* The callback returns e: nil, an error of its own, or the error its last
\* statement gave it.
FReturn(p, e) ==
  /\ pc[p] = "f"
  /\ e \in {Nil, ErrApp} \cup (IF HasLast(p) THEN {Last(p).res} ELSE {})
  /\ Transaction(p, e)
  /\ UNCHANGED <<log, fCalls>>
  /\ UNCHANGED <<cfg, call>>

\* The callback panics with a value of its own.
FPanic(p) ==
  /\ pc[p] = "f"
  /\ Recover(p, PanicUser)
  /\ UNCHANGED <<log, fCalls>>
  /\ UNCHANGED <<cfg, call>>

\* Both goroutines, statement faults with an unclassified error only.
Next ==
  \E p \in Procs :
    \/ Begin(p)
    \/ BeginFail(p)
    \/ \E k \in Keys : ExecInsert(p, k)
    \/ InsertWake(p)
    \/ DeadlockAbort(p)
    \/ \E k \in Keys : QueryForUpdateNowait(p, k)
    \/ \E k \in Keys : ExecFault(p, k, {})
    \/ \E k \in Keys : QueryFault(p, k, {})
    \/ \E e \in Errs \cup {Nil} : FReturn(p, e)
    \/ FPanic(p)

Spec == Init /\ [][Next]_vars

\* The goroutines and the database keep running: a step that can be taken is
\* taken.
FairSpec == Spec /\ WF_vars(Next)

\* One goroutine alone, its statements failing with every error text.
NextFault ==
  \/ Begin("g1")
  \/ BeginFail("g1")
  \/ \E k \in Keys : ExecInsert("g1", k)
  \/ \E k \in Keys : QueryForUpdateNowait("g1", k)
  \/ \E k \in Keys, text \in ErrTexts : ExecFault("g1", k, text)
  \/ \E k \in Keys, text \in ErrTexts : QueryFault("g1", k, text)
  \/ \E e \in Errs \cup {Nil} : FReturn("g1", e)
  \/ FPanic("g1")

SpecFault == Init /\ [][NextFault]_vars

\* ------------------------------------------------ calls outside a callback

\* Arguments a call has at most.
MaxArgs == 2

\* tx as the caller passes it: nil, or a transaction of its own.
Handles == {Nil, "tx"}

\* A record type like TableForTest, with its zero value.
M0 == Model(TRUE, <<"Id", "Uid">>, <<"id", "uid">>, <<IntV(0), IntV(0)>>)

\* One row of that table.
Rs0 == ResultSet(<<"id", "uid">>, <<<<IntV(1), IntV(1)>>>>, "none")

\* Answers of the driver to the statement.
Drvs == {DrvOk, DrvErr({PostgresErrCodeLockNotAvailable})}

\* EXPLAIN answers with a plan of one node.
Ex(t) == Explain("none", <<Doc(<<Node(t, <<>>)>>)>>)

\* The call as the caller and the database saw it: the arguments, the rows
\* stored when it began, the answers of the driver that the call came to ask
\* for (None for those it did not), the plan the database has for the
\* statement, and how it ended.
Called(fn, h, mp, query, nargs, drv, rs, ex, res) ==
  [fn |-> fn, h |-> h, mp |-> mp, query |-> query, nargs |-> nargs,
   before |-> table,
   drv |-> IF res.via = "none" THEN None ELSE drv,
   rs |-> IF res.via # "none" /\ drv.ok THEN rs ELSE None,
   ex |-> ex,
   res |-> res]

\* The rows stored once a statement went to a handle.  A statement that
\* succeeded on the pool is committed at once: a DELETE removes the rows it
\* matches, an INSERT adds a row with a new key.  A transaction of the
\* caller keeps its changes to itself.
Stored(query, via, drv) ==
  IF via # "pool" \/ ~drv.ok THEN {table}
  ELSE IF StrContainWithIgnoreCase(query, KwDelete) THEN SUBSET table
  ELSE IF StrContainWithIgnoreCase(query, <<"INSERT", " ">>)
    THEN {table \cup {k} : k \in Keys \ table}
  ELSE {table}

\* A caller calls Query.
CallQuery(h, mp, query, nargs, drv, rs, ex) ==
  /\ call.fn = "none"
  /\ call' = Called("Query", h, mp, query, nargs, drv, rs, ex,
                    QueryCall(h, mp, query, nargs, drv, rs, ex))
  /\ UNCHANGED <<table, cfg>>
  /\ UNCHANGED txVars

\* A caller calls QueryFirst.
CallQueryFirst(h, mp, query, nargs, drv, rs, ex) ==
  /\ call.fn = "none"
  /\ call' = Called("QueryFirst", h, mp, query, nargs, drv, rs, ex,
                    QueryFirstCall(h, mp, query, nargs, drv, rs, ex))
  /\ UNCHANGED <<table, cfg>>
  /\ UNCHANGED txVars

\* A caller calls Exec.
CallExec(h, query, nargs, drv, ex) ==
  /\ call.fn = "none"
  /\ LET res == ExecCall(h, query, nargs, drv, ex) IN
       /\ call' = Called("Exec", h, NilModel, query, nargs, drv, None, ex, res)
       /\ table' \in Stored(query, res.via, drv)
  /\ UNCHANGED cfg
  /\ UNCHANGED txVars

\* A caller calls CheckSeqScan.
CallCheckSeqScan(query, nargs, ex) ==
  /\ call.fn = "none"
  /\ LET a == CheckSeqScan(query, ex) IN
       call' = Called("CheckSeqScan", Nil, NilModel, query, nargs, None, None, ex,
                      Res([kind |-> a.kind, val |-> a.val], "none", a))
  /\ UNCHANGED <<table, cfg>>
  /\ UNCHANGED txVars

\* The caller has its answer and goes on.
Return ==
  /\ call.fn # "none"
  /\ call' = NoCall
  /\ UNCHANGED <<table, cfg>>
  /\ UNCHANGED txVars

\* The state before the first call, the settings being one of cfgs.
InitCalls(cfgs) ==
  /\ pc = [p \in Procs |-> "start"]
  /\ tx = [p \in Procs |-> "Idle"]
  /\ table \in {{}, {"aa"}}
  /\ ins = [p \in Procs |-> {}]
  /\ locks = [p \in Procs |-> {}]
  /\ log = [p \in Procs |-> <<>>]
  /\ fCalls = [p \in Procs |-> 0]
  /\ fRet = [p \in Procs |-> None]
  /\ outcome = [p \in Procs |-> None]
  /\ nRollback = [p \in Procs |-> 0]
  /\ nCommit = [p \in Procs |-> 0]
  /\ endRes = [p \in Procs |-> "none"]
  /\ cfg \in cfgs
  /\ call = NoCall

\* The validators: debug mode with the plan audit, every setting of the
\* validator switches; the statements have an index scan for their plan.
InitCheck == InitCalls({c \in Cfgs : c.Mode = MODE_DEBUG /\ c.useSeqScanCheck})

\* Every statement text with every number of arguments goes to Query and to
\* Exec.
NextCheck ==
  \/ /\ call.fn = "none"
     /\ \E h \in Handles, mp \in {NilModel, M0}, query \in Texts,
           nargs \in 0..MaxArgs, drv \in Drvs :
          CallQuery(h, mp, query, nargs, drv, Rs0, Ex(IndexScan))
  \/ /\ call.fn = "none"
     /\ \E h \in Handles, query \in Texts, nargs \in 0..MaxArgs,
           drv \in Drvs :
          CallExec(h, query, nargs, drv, Ex(IndexScan))
  \/ Return

SpecCheck == InitCheck /\ [][NextCheck]_vars

\* Nodes the longest plan has, one below the other: two more than type Plan
\* has levels below the root.
MaxPlanNodes == 12

\* A plan of n nodes, one below the other, from the node at level on: the
\* node at level j is of type t, the others are Limit nodes above an index
\* scan.
RECURSIVE Chain(_, _, _, _)
Chain(level, n, j, t) ==
  Node(IF level = j THEN t
       ELSE IF level + 1 = n THEN IndexScan ELSE <<"Limit">>,
       IF level + 1 = n THEN <<>> ELSE <<Chain(level + 1, n, j, t)>>)

\* The plans of the statements: chains with a sequential scan at any level
\* or at none (j = n), with a parallel one at the root or the leaf, and
\* joins of an index scan with a short chain.
Plans ==
  {Chain(0, n, j, SeqScan) : n \in 1..MaxPlanNodes, j \in 0..MaxPlanNodes}
  \cup {Chain(0, n, j, ParallelSeqScan) : n \in 1..MaxPlanNodes, j \in {0, 1}}
  \cup {Node(<<"Nested", " ", "Loop">>,
             <<Node(IndexScan, <<>>), Chain(0, n, j, <<"seq", " ", "scan">>)>>) :
           n \in 1..2, j \in 0..2}

\* What the database does with an audit: it gives the plan, or a step
\* fails, or EXPLAIN gives something else than one row with one plan.
Explains ==
  {Explain("none", <<Doc(<<p>>)>>) : p \in Plans}
  \cup {Explain(f, <<Doc(<<Node(SeqScan, <<>>)>>)>>) :
           f \in {"begin", "set", "explain", "rows", "rollback"}}
  \cup {Explain("none", d) :
           d \in {<<>>, <<BadDoc>>, <<Doc(<<>>)>>,
                  <<Doc(<<Node(IndexScan, <<>>), Node(IndexScan, <<>>)>>)>>,
                  <<Doc(<<Node(IndexScan, <<>>)>>),
                    Doc(<<Node(IndexScan, <<>>)>>)>>}}

\* Statements that pass the checks, with and without the marker of the
\* audit.
AuditTexts ==
  {<<"SELECT", " ", "*", " ", "FROM", " ", "t", " ", "WHERE", " ", "name",
     "=", "$">>,
   <<"SELECT", " ", "name", " ", "FROM", " ", "t", " ", "WHERE", " ">>
     \o Tautology(seqScanCheckDisableClause),
   <<"UPDATE", " ", "t", " ", "SET", " ", "name", "=", "$", ",", " ",
     "updated_at", "=", "now()", " ", "WHERE", " ", "id", "=", "$">>,
   <<"UPDATE", " ", "t", " ", "SET", " ", "updated_at", "=", "now()", " ",
     "WHERE", " ">>
     \o Tautology(<<"SEQ", " ", "SCAN", " ", "CHECK", " ", "DISABLE">>)}

\* The plan audit: every Mode, the audit on and off, the validator switches
\* as the package sets them.
InitAudit ==
  InitCalls({c \in Cfgs : /\ c.useWhereCheck
                          /\ c.forceNowaitOnLockingRead
                          /\ c.forceUpdatedAtCheck})

\* The statements go to Query, to Exec and to CheckSeqScan, the database
\* having any of the plans for them.
NextAudit ==
  \/ /\ call.fn = "none"
     /\ \E query \in AuditTexts, ex \in Explains :
          CallQuery(Nil, M0, query, Count(query, "$"), DrvOk, Rs0, ex)
  \/ /\ call.fn = "none"
     /\ \E query \in AuditTexts, ex \in Explains :
          CallExec(Nil, query, Count(query, "$"), DrvOk, ex)
  \/ /\ call.fn = "none"
     /\ \E query \in AuditTexts, ex \in Explains :
          CallCheckSeqScan(query, Count(query, "$"), ex)
  \/ Return

SpecAudit == InitAudit /\ [][NextAudit]_vars

\* Fields of the longest record type, columns of the widest result set, rows
\* of the longest one.
MaxFields == 2
MaxCols == 2
MaxRows == 2

\* The names of Go fields, the tags they may carry ("" for none), and the
\* names of result columns.
FieldNames == <<"A", "B", "C", "D">>
Tags == {"id", "uid", ""}
Columns == {"id", "uid", "memo"}

\* The records a caller passes: any tags on the fields, the record zeroed
\* or filled in; a value that is no struct; no record.
Models ==
  UNION {{Model(TRUE, SubSeq(FieldNames, 1, n), tags, [f \in 1..n |-> v]) :
            tags \in [1..n -> Tags], v \in {IntV(0), IntV(7)}} :
         n \in 1..MaxFields}

\* The value the database holds in row k for column c.
Cell(k, c) == IntV(10 * k + c)

\* The result sets: any column names, up to MaxRows rows.
ResultSets ==
  {ResultSet(cols, [k \in 1..n |-> [c \in 1..Len(cols) |-> Cell(k, c)]], f) :
     cols \in UNION {[1..w -> Columns] : w \in 0..MaxCols},
     n \in 0..MaxRows,
     f \in {"none", "columns", "scan", "rows"}}

RowsText ==
  <<"SELECT", " ", "*", " ", "FROM", " ", "t", " ", "WHERE", " ", "uid",
    "=", "$">>

\* The rows of a statement: debug and production mode, the switches as
\* the package sets them.
InitRows ==
  InitCalls({c \in Cfgs : /\ c.Mode # "staging"
                          /\ c.useSeqScanCheck
                          /\ c.useWhereCheck
                          /\ c.forceNowaitOnLockingRead
                          /\ c.forceUpdatedAtCheck})

\* A SELECT goes to Query and to QueryFirst with any record, the database
\* having any result set for it and an index scan or a sequential scan for
\* its plan.
NextRows ==
  \/ /\ call.fn = "none"
     /\ \E mp \in Models \cup {NilModel, Model(FALSE, <<>>, <<>>, <<>>)},
           drv \in Drvs, rs \in ResultSets, t \in {IndexScan, SeqScan} :
          CallQuery(Nil, mp, RowsText, 1, drv, rs, Ex(t))
  \/ /\ call.fn = "none"
     /\ \E mp \in Models \cup {NilModel, Model(FALSE, <<>>, <<>>, <<>>)},
           drv \in Drvs, rs \in ResultSets, t \in {IndexScan, SeqScan} :
          CallQueryFirst(Nil, mp, RowsText, 1, drv, rs, Ex(t))
  \/ Return

SpecRows == InitRows /\ [][NextRows]_vars

\* ------------------------------------------- audited statements in a unit

\* The INSERT a callback executes.
InsertRow ==
  <<"INSERT", " ", "INTO", " ", "t", " ", "(", "uid", ")", " ", "VALUES",
    " ", "(", "$", ")">>

\* The callback calls Exec(tx, InsertRow, k): the checks pass, the driver
\* executes the statement and the row is inserted in the transaction; what
\* is left of Exec is its end, the plan audit in debug mode.
ExecAudited(p, k) ==
  /\ pc[p] = "f"
  /\ Len(log[p]) < MaxStmts
  /\ tx[p] = "Active"
  /\ k \notin table \cup ins[p]
  /\ EnvAt(p, k).blocker = {}
  /\ ExecChecks(InsertRow, 1) = Pass
  /\ Exec(DrvOk) = Returned(Nil)
  /\ log' = [log EXCEPT ![p] =
               Append(@, Entry("insert", k, EnvAt(p, k), "ok", DrvOk, 1))]
  /\ pc' = [pc EXCEPT ![p] = "audit"]
  /\ ins' = [ins EXCEPT ![p] = @ \cup {k}]
  /\ UNCHANGED <<tx, table, locks, fCalls, fRet, outcome, nRollback, nCommit,
                 endRes>>
  /\ UNCHANGED <<cfg, call>>

\* The end of that Exec, ex being what the database does with the audit:
\* the callback goes on with the result, or Exec aborts and doAndRecover
\* recovers the panic.
AuditReturn(p, ex) ==
  /\ pc[p] = "audit"
  /\ LET w == AuditStage(Returned(Pair(SqlResult, Nil)), InsertRow, "tx",
                         ex).out IN
       StmtReturn(p, Last(p),
                  IF w.kind = "panic" THEN Panicked(Head(w.val))
                  ELSE Returned(w.val.err),
                  tx[p], ins[p], locks[p])
  /\ UNCHANGED <<cfg, call>>

\* The audits of a unit of work: a plan without and with a sequential scan,
\* and an EXPLAIN that fails.
UnitExplains ==
  {Ex(IndexScan), Ex(SeqScan),
   Explain("explain", <<Doc(<<Node(SeqScan, <<>>)>>)>>)}

\* Statements executed on the pool, outside a unit of work.
PoolTexts ==
  {InsertRow,
   <<"DELETE", " ", "FROM", " ", "t", " ", "WHERE", " ", "uid", "=", "$">>}

\* Debug and production mode, the switches as the package sets them.
InitUnit ==
  InitCalls({c \in Cfgs : /\ c.Mode # "staging"
                          /\ c.useSeqScanCheck
                          /\ c.useWhereCheck
                          /\ c.forceNowaitOnLockingRead
                          /\ c.forceUpdatedAtCheck})

\* One goroutine runs a unit of work whose inserts are audited; beside it,
\* statements are executed on the pool.
NextUnit ==
  \/ Begin("g1")
  \/ BeginFail("g1")
  \/ \E k \in Keys : ExecInsert("g1", k)
  \/ \E k \in Keys : ExecAudited("g1", k)
  \/ \E ex \in UnitExplains : AuditReturn("g1", ex)
  \/ \E k \in Keys : QueryForUpdateNowait("g1", k)
  \/ \E e \in Errs \cup {Nil} : FReturn("g1", e)
  \/ FPanic("g1")
  \/ /\ call.fn = "none"
     /\ pc["g1"] = "start"
     /\ \E query \in PoolTexts, ex \in UnitExplains :
          CallExec(Nil, query, 1, DrvOk, ex)
  \/ /\ pc["g1"] = "start"
     /\ Return

SpecUnit == InitUnit /\ [][NextUnit]_vars

\* ---------------------------------------------------- reading a statement

\* The number a digit stands for, and the digits.
DigitValue(u) ==
  CASE u = "0" -> 0 [] u = "1" -> 1 [] u = "2" -> 2 [] u = "3" -> 3
    [] u = "4" -> 4 [] u = "5" -> 5 [] u = "6" -> 6 [] u = "7" -> 7
    [] u = "8" -> 8 [] u = "9" -> 9
Digits == {"0", "1", "2", "3", "4", "5", "6", "7", "8", "9"}

\* The positions of the unit u in the text, from the left.
PositionsOf(text, u) ==
  LET P == {i \in 1..Len(text) : text[i] = u}
  IN [k \in 1..Cardinality(P) |->
        CHOOSE i \in P : Cardinality({j \in P : j < i}) = k - 1]

\* The digits that follow position i of the text.
DigitsAfter(text, i) ==
  LET stop == CHOOSE j \in (i + 1)..(Len(text) + 1) :
                /\ j = Len(text) + 1 \/ text[j] \notin Digits
                /\ \A m \in (i + 1)..(j - 1) : text[m] \in Digits
  IN SubSeq(text, i + 1, stop - 1)

\* The number the digits ds write, and 0 for no digit.
RECURSIVE NumberOf(_)
NumberOf(ds) ==
  IF Len(ds) = 0 THEN 0
  ELSE IF Len(ds) = 1 THEN DigitValue(ds[1])
  ELSE 10 * NumberOf(SubSeq(ds, 1, Len(ds) - 1)) + DigitValue(ds[Len(ds)])

\* The number of the k-th placeholder of the text.
PlaceholderNumber(text, k) ==
  NumberOf(DigitsAfter(text, PositionsOf(text, "$")[k]))

\* ------------------------------------------------- the statement builders

\* Clauses of the longest WHERE, ORDER BY and SET, and fields of the longest
\* record type an INSERT is built for.
MaxClauses == 2
MaxOrmFields == 3

\* Names of record types, as reflection gives them.
TypeNames == {<<"T">>, <<"U", "s", "T">>, <<"T", "2", "U">>}

\* The annotations of the fields of the record types ("" for none).
OrmTags == {"id", "name", "age", ""}

\* The ignore sets: none, the one of Insert and InsertBulk, one of a caller.
DefaultIgnores == {"id", "created_at", "updated_at"}
IgnoreSets == {{}, DefaultIgnores, {"age"}}

\* The fragments callers write: with one marker, with two, with none.
WhereFrags ==
  {<<"name", " ", "=", " ", "?">>,
   <<"age", " ", "IN", " ", "(", "?", ",", " ", "?", ",", " ", "?", ",", " ",
     "?", ")">>,
   <<"id", " ", "IS", " ", "NULL">>}
OrderFrags == {<<"id">>, <<"name", " ", "DESC">>}
SetFrags ==
  {<<"name", " ", "=", " ", "?">>,
   <<"age", " ", "=", " ", "age", " ", "+", " ", "1">>}

\* The sequences of at most n elements of S.
SeqsUpTo(S, n) == UNION {[1..k -> S] : k \in 0..n}

\* The values of the markers of a WHERE: as many as a caller passes.
WhereValues == {[i \in 1..k |-> IntV(100 + i)] : k \in 0..4 * MaxClauses}

\* The maps limitOffset: nil, empty, with either key, with both.
LimitOffsets ==
  {NilLimitOffset}
  \cup {LimitOffset(l, o) : l \in {<<>>, <<5>>}, o \in {<<>>, <<6>>}}

\* The values a "SET" takes: the sentinel, a text that is not, a number.
SetValues == SeqsUpTo({NOW, StrV("now"), IntV(5)}, MaxClauses)

\* What the clock reads.
Instants == {1, 2}

\* Field f of item j of a bulk: a value, a pointer to it, or a nil pointer.
FieldOfKind(kind, j, f) ==
  CASE kind = "value" -> IntV(10 * j + f)
    [] kind = "pointer" -> PtrV(IntV(10 * j + f))
    [] kind = "nil" -> NilPtr("int")

\* The records of up to max fields that statements are built for: any
\* annotations, every field a value, a set pointer or a nil pointer.
OrmRecords(max) ==
  UNION {{Named(name,
                Model(TRUE, SubSeq(FieldNames, 1, n), tags,
                      [f \in 1..n |-> FieldOfKind(kinds[f], 1, f)])) :
            name \in {<<"U", "s", "T">>}, tags \in [1..n -> OrmTags],
            kinds \in [1..n -> {"value", "pointer", "nil"}]} :
         n \in 1..max}

\* What is no record: a number, and a nil pointer.
NonRecords ==
  {Named(<<"T">>, Model(FALSE, <<>>, <<>>, <<>>)), Named(<<"T">>, NilModel)}

CallGetQuerySQL(s, whereClauses, whereValues, orderByClauses, limitOffset) ==
  /\ call.fn = "none"
  /\ call' = [fn |-> "getQuerySQL", s |-> s, whereClauses |-> whereClauses,
              whereValues |-> whereValues, orderByClauses |-> orderByClauses,
              limitOffset |-> limitOffset,
              res |-> getQuerySQL(s, whereClauses, whereValues,
                                  orderByClauses, limitOffset)]
  /\ UNCHANGED <<table, cfg>>
  /\ UNCHANGED txVars

CallGetUpdateSQL(s, whereClauses, whereValues, setClauses, setValues, now) ==
  /\ call.fn = "none"
  /\ call' = [fn |-> "getUpdateSQL", s |-> s, whereClauses |-> whereClauses,
              whereValues |-> whereValues, setClauses |-> setClauses,
              setValues |-> setValues, now |-> now,
              res |-> getUpdateSQL(s, whereClauses, whereValues, setClauses,
                                   setValues, now)]
  /\ UNCHANGED <<table, cfg>>
  /\ UNCHANGED txVars

CallGetDeleteSQL(s, whereClauses) ==
  /\ call.fn = "none"
  /\ call' = [fn |-> "getDeleteSQL", s |-> s, whereClauses |-> whereClauses,
              res |-> getDeleteSQL(s, whereClauses)]
  /\ UNCHANGED <<table, cfg>>
  /\ UNCHANGED txVars

CallGetInsertSQL(s, ignores) ==
  /\ call.fn = "none"
  /\ call' = [fn |-> "getInsertSQL", s |-> s, ignores |-> ignores,
              res |-> getInsertSQL(s, ignores)]
  /\ UNCHANGED <<table, cfg>>
  /\ UNCHANGED txVars

InitBuild == InitCalls({DefaultCfg}) /\ table = {}

\* Every builder is called with any clauses, values, records and items.
NextBuild ==
  \/ /\ call.fn = "none"
     /\ \E s \in {Named(n, M0) : n \in TypeNames} \cup NonRecords,
           whereClauses \in SeqsUpTo(WhereFrags, MaxClauses),
           whereValues \in WhereValues,
           orderByClauses \in SeqsUpTo(OrderFrags, MaxClauses),
           limitOffset \in LimitOffsets :
          CallGetQuerySQL(s, whereClauses, whereValues, orderByClauses,
                          limitOffset)
  \/ /\ call.fn = "none"
     /\ \E s \in {Named(<<"T">>, M0)} \cup NonRecords,
           whereClauses \in SeqsUpTo(WhereFrags, 1),
           whereValues \in {v \in WhereValues : Len(v) <= 4},
           setClauses \in SeqsUpTo(SetFrags, MaxClauses),
           setValues \in SetValues, now \in Instants :
          CallGetUpdateSQL(s, whereClauses, whereValues, setClauses,
                           setValues, now)
  \/ /\ call.fn = "none"
     /\ \E s \in {Named(n, M0) : n \in TypeNames} \cup NonRecords,
           whereClauses \in SeqsUpTo(WhereFrags, MaxClauses) :
          CallGetDeleteSQL(s, whereClauses)
  \/ /\ call.fn = "none"
     /\ \E s \in OrmRecords(MaxOrmFields) \cup NonRecords,
           ignores \in IgnoreSets :
          CallGetInsertSQL(s, ignores)
  \/ Return

SpecBuild == InitBuild /\ [][NextBuild]_vars

\* ------------------------------------------------------------ the database

\* The table of the tests, cut to four columns: id has a default (a new
\* number) and is the primary key, uid is NOT NULL without a default, name
\* may be NULL, updated_at is NOT NULL with the default now().
Schema == <<"id", "uid", "name", "updated_at">>
DbTable == <<"u", "s", "_", "t", "s">>

Range(f) == {f[i] : i \in DOMAIN f}

\* The word of the text that starts at unit i: the units up to a blank.
WordAt(text, i) ==
  LET stop == CHOOSE j \in i..(Len(text) + 1) :
                /\ j = Len(text) + 1 \/ text[j] = " "
                /\ \A m \in i..(j - 1) : text[m] # " "
  IN SubSeq(text, i, stop - 1)

\* The table a statement names.
TableIn(text) ==
  CASE text[1] = "INSERT" -> WordAt(text, 5)
    [] text[1] = "SELECT" -> WordAt(text, 7)
    [] text[1] = "UPDATE" -> WordAt(text, 3)
    [] text[1] = "DELETE" -> WordAt(text, 5)

\* Where the WHERE of a statement begins: behind its end if it has none.
WherePos(text) ==
  IF Count(text, "WHERE") = 0 THEN Len(text) + 1
  ELSE PositionsOf(text, "WHERE")[1]

\* The comparisons and assignments "col = $n" from unit lo to unit hi.
Bindings(text, lo, hi) ==
  {[col |-> text[p - 4], num |-> NumberOf(DigitsAfter(text, p))] :
     p \in {q \in lo..hi : q <= Len(text) /\ text[q] = "$"}}

\* The row satisfies every comparison of bs: NULL equals nothing.
Matches(row, bs, values) ==
  \A b \in bs : ~row[b.col].nil /\ row[b.col] = values[b.num]

\* The elements of rows that satisfy (keep) or do not satisfy bs.
RECURSIVE Filter(_, _, _, _)
Filter(rows, bs, values, keep) ==
  IF Len(rows) = 0 THEN <<>>
  ELSE IF Matches(rows[1], bs, values) = keep
    THEN <<rows[1]>> \o Filter(Tail(rows), bs, values, keep)
  ELSE Filter(Tail(rows), bs, values, keep)

\* The column list of an INSERT: the names between its quotes.
ColumnList(text) ==
  LET q == PositionsOf(text, "\"")
  IN [j \in 1..(Len(q) \div 2) |-> text[q[2 * j - 1] + 1]]

\* The g-th number from 1 on that is the id of none of the rows.
NewId(rows, g) ==
  LET used == {rows[i]["id"].n : i \in 1..Len(rows)}
      free == (1..(Len(rows) + g)) \ used
  IN CHOOSE n \in free : Cardinality({m \in free : m < n}) = g - 1

\* What a column gets when an INSERT does not name it.
Default(c, id) ==
  CASE c = "id" -> IntV(id)
    [] c = "updated_at" -> TimeV(9)
    [] OTHER -> NullV

\* The rows an INSERT adds: the g-th tuple gives the g-th row.
NewRows(rows, text, values) ==
  LET cols == ColumnList(text)
      k == Len(cols)
      ph == PositionsOf(text, "$")
  IN [g \in 1..(Len(ph) \div k) |->
        [c \in Range(Schema) |->
           IF \E j \in 1..k : cols[j] = c
             THEN values[NumberOf(DigitsAfter(text,
                    ph[(g - 1) * k + (CHOOSE j \in 1..k : cols[j] = c)]))]
           ELSE Default(c, NewId(rows, g))]]

\* The rows satisfy the constraints of the table.
Valid(rows) ==
  /\ \A i \in 1..Len(rows) :
       ~rows[i]["id"].nil /\ ~rows[i]["uid"].nil /\ ~rows[i]["updated_at"].nil
  /\ \A i, j \in 1..Len(rows) : rows[i]["id"] = rows[j]["id"] => i = j

\* The rows after an UPDATE.
Updated(rows, text, values) ==
  LET set == Bindings(text, 1, WherePos(text))
      where == Bindings(text, WherePos(text), Len(text))
  IN [i \in 1..Len(rows) |->
        IF Matches(rows[i], where, values)
          THEN [c \in Range(Schema) |->
                  IF \E b \in set : b.col = c
                    THEN values[(CHOOSE b \in set : b.col = c).num]
                  ELSE rows[i][c]]
        ELSE rows[i]]

\* The answer of the database to a statement: that of the driver, the rows
\* stored afterwards, and the rows given back.
Answer(drv, rows, found) == [drv |-> drv, rows |-> rows, found |-> found]

\* The database executes the statement on the rows it stores.  An unknown
\* table or column, a column named twice, an empty column list and a NULL
\* in a NOT NULL column are errors without a code the wrapper knows; an id
\* stored already is the unique violation.
Database(rows, text, values) ==
  LET fail == Answer(DrvErr({}), rows, <<>>) IN
  IF TableIn(text) # DbTable THEN fail
  ELSE IF text[1] = "INSERT" THEN
    LET cols == ColumnList(text) IN
    IF \/ Len(cols) = 0
       \/ \E j \in 1..Len(cols) : cols[j] \notin Range(Schema)
       \/ \E i, j \in 1..Len(cols) : i # j /\ cols[i] = cols[j]
      THEN fail
    ELSE
      LET all == rows \o NewRows(rows, text, values) IN
      IF \E i \in 1..Len(all) :
           all[i]["id"].nil \/ all[i]["uid"].nil \/ all[i]["updated_at"].nil
        THEN fail
      ELSE IF ~Valid(all)
        THEN Answer(DrvErr({PostgresErrCodeUniqConstraint}), rows, <<>>)
      ELSE Answer(DrvOk, all, <<>>)
  ELSE IF \E b \in Bindings(text, 1, Len(text)) : b.col \notin Range(Schema)
    THEN fail
  ELSE IF text[1] = "SELECT" THEN
    Answer(DrvOk, rows,
           Filter(rows, Bindings(text, WherePos(text), Len(text)), values,
                  TRUE))
  ELSE IF text[1] = "UPDATE" THEN
    IF Valid(Updated(rows, text, values))
      THEN Answer(DrvOk, Updated(rows, text, values), <<>>)
    ELSE fail
  ELSE
    Answer(DrvOk,
           Filter(rows, Bindings(text, WherePos(text), Len(text)), values,
                  FALSE),
           <<>>)

\* The result set of a SELECT *: the columns of the table and the rows
\* found, in the order they are stored or in the opposite one.
Found(found, rev) ==
  ResultSet(Schema,
            [k \in 1..Len(found) |->
               [c \in 1..Len(Schema) |->
                  found[IF rev THEN Len(found) + 1 - k ELSE k][Schema[c]]]],
            "none")

\* ------------------------------------------------- the ORM on the database

\* Rows the table holds at most, and items of the longest bulk.
MaxStored == 2
MaxItems == 2

\* The record types: TableForTest cut to the columns of the table, with
\* name a pointer or not; one with a field without annotation; one that
\* lacks columns of the table.
OrmTypes ==
  {[tags |-> <<"id", "uid", "name", "updated_at">>, ptr |-> TRUE],
   [tags |-> <<"id", "uid", "name", "updated_at">>, ptr |-> FALSE],
   [tags |-> <<"id", "uid", "name", "">>, ptr |-> TRUE],
   [tags |-> <<"uid", "name">>, ptr |-> TRUE]}

\* A record of the type: uid is u, name is 7 if set, the rest is zero.
Record(name, type, u, set) ==
  Named(name,
        Model(TRUE, SubSeq(FieldNames, 1, Len(type.tags)), type.tags,
              [f \in 1..Len(type.tags) |->
                 CASE type.tags[f] = "uid" -> IntV(u)
                   [] type.tags[f] = "name" ->
                        IF type.ptr
                          THEN (IF set THEN PtrV(IntV(7)) ELSE NilPtr("int"))
                          ELSE (IF set THEN IntV(7) ELSE IntV(0))
                   [] type.tags[f] = "updated_at" -> TimeV(0)
                   [] OTHER -> IntV(0)]))

\* The type of OrmTypes with the annotations tags and name a pointer.
Typed(tags) == CHOOSE t \in OrmTypes : t.tags = tags /\ t.ptr
TableForTest == Typed(<<"id", "uid", "name", "updated_at">>)
Unannotated == Typed(<<"id", "uid", "name", "">>)

\* The records callers insert: TableForTest with any uid and name, one
\* record of each other type, one of a type without a table; and the zero
\* records they pass to Find, First, Update and Delete.
Records ==
  {Record(<<"U", "s", "T">>, TableForTest, u, set) :
     u \in {1, 2}, set \in BOOLEAN}
  \cup {Record(<<"U", "s", "T">>, t, 1, TRUE) : t \in OrmTypes}
  \cup {Record(<<"T">>, Typed(<<"uid", "name">>), 1, TRUE)}
ZeroRecords ==
  {Record(<<"U", "s", "T">>, t, 0, FALSE) : t \in OrmTypes}

\* The bulks: up to MaxItems records of TableForTest, the first with uid 1,
\* their names set or not; a record of the type with the field without
\* annotation; a nil pointer after a pointer to a record.
Bulks ==
  UNION {{[j \in 1..m |-> Record(<<"U", "s", "T">>, TableForTest, u[j], set)] :
            u \in {u \in [1..m -> {1, 2}] : m = 0 \/ u[1] = 1},
            set \in {b \in BOOLEAN : m > 0 \/ b}} :
         m \in 0..MaxItems}
  \cup {<<Record(<<"U", "s", "T">>, Unannotated, 1, TRUE)>>}
  \cup {<<Record(<<"U", "s", "T">>, Typed(<<"uid", "name">>), 1, TRUE),
          Named(<<"T">>, NilModel)>>}

\* The conditions of the callers: by uid, by name, none.
ByUid(u) ==
  [clauses |-> <<<<"uid", " ", "=", " ", "?">>>>, values |-> <<IntV(u)>>]
ByName ==
  [clauses |-> <<<<"name", " ", "=", " ", "?">>>>, values |-> <<IntV(7)>>]
NoWhere == [clauses |-> <<>>, values |-> <<>>]

\* The maps of Update: nothing to set, and a name and a uid.
SetMaps ==
  {<<>>, [k \in {"name", "uid"} |-> IF k = "name" THEN IntV(8) ELSE IntV(1)]}

\* The records Update, Delete and First are called with.
Targets ==
  {Record(<<"U", "s", "T">>, t, 0, FALSE) : t \in {TableForTest, Unannotated}}
  \cup {Named(<<"T">>, NilModel)}

\* What the history keeps of a row that was stored: the id it got, the
\* record it was inserted from, the ignore set, and whether an UPDATE or a
\* DELETE changed it since.
Inserted(id, item, ignores) ==
  [id |-> id, item |-> item, ignores |-> ignores, changed |-> FALSE]

\* The statement reached the driver and the database executed it.
Executed(o, ans) == o.res.via # "none" /\ ans.drv.ok

\* The history once the rows stored are rows: the entries of the rows that
\* changed or went are marked.
Kept(rows) ==
  [i \in 1..Len(log["g1"]) |->
     [log["g1"][i] EXCEPT
        !.changed = @ \/ \A j \in 1..Len(rows) :
                           \/ rows[j]["id"] # IntV(log["g1"][i].id)
                           \/ \E k \in 1..Len(table) :
                                /\ table[k]["id"] = rows[j]["id"]
                                /\ table[k] # rows[j]]]

\* An entry point that executes a statement was called: the database holds
\* the rows stored afterwards, the history follows it.  The callers insert
\* MaxStored rows at most.
Wrote(args, o, ans, items, ignores) ==
  /\ Executed(o, ans) => Len(log["g1"]) + Len(items) <= MaxStored
  /\ call' = args @@ [h |-> Nil, before |-> table, built |-> o.built,
                      res |-> o.res]
  /\ table' = IF Executed(o, ans) THEN ans.rows ELSE table
  /\ log' = IF Executed(o, ans)
              THEN [log EXCEPT !["g1"] =
                      Kept(ans.rows)
                        \o [j \in 1..Len(items) |->
                              Inserted(ans.rows[Len(table) + j]["id"].n,
                                       items[j], ignores)]]
              ELSE log
  /\ UNCHANGED <<pc, tx, ins, locks, fCalls, fRet, outcome, nRollback,
                 nCommit, endRes, cfg>>

\* The answer of the database to a statement of Exec that passes the
\* checks; nothing is asked of it otherwise.
ExecAnswer(b, values) ==
  IF b.kind = "return" /\ ExecChecks(b.val.sql, Len(values)) = Pass
    THEN Database(table, b.val.sql, values)
    ELSE Answer(DrvOk, table, <<>>)

CallInsertWithIgnores(fn, s, ignores, ex) ==
  /\ call.fn = "none"
  /\ LET b == getInsertSQL(s, ignores)
         ans == ExecAnswer(b, IF b.kind = "return" THEN b.val.values ELSE <<>>)
         o == IF fn = "Insert" THEN Insert(Nil, s, ans.drv, ex)
              ELSE InsertWithIgnores(Nil, s, ignores, ans.drv, ex)
     IN Wrote([fn |-> fn, items |-> <<s>>, ignores |-> ignores, ex |-> ex],
              o, ans, <<s>>, ignores)

CallInsertBulkWithIgnores(fn, items, ignores, ex) ==
  /\ call.fn = "none"
  /\ LET b == getBulkInsertSQL(items, ignores)
         ans == IF Len(items) = 0 THEN Answer(DrvOk, table, <<>>)
                ELSE ExecAnswer(b, IF b.kind = "return" THEN b.val.values
                                   ELSE <<>>)
         o == IF fn = "InsertBulk" THEN InsertBulk(Nil, items, ans.drv, ex)
              ELSE InsertBulkWithIgnores(Nil, items, ignores, ans.drv, ex)
     IN Wrote([fn |-> fn, items |-> items, ignores |-> ignores, ex |-> ex],
              o, ans, items, ignores)

CallUpdate(s, where, setMaps, now, ex) ==
  /\ call.fn = "none"
  /\ LET setField == getOrderedKeys(setMaps)
         b == getUpdateSQL(s, where.clauses, where.values,
                           [i \in 1..Len(setField) |->
                              <<setField[i], " ", "=", " ", "?">>],
                           [i \in 1..Len(setField) |-> setMaps[setField[i]]],
                           now)
         ans == ExecAnswer(b, IF b.kind = "return" THEN b.val.values ELSE <<>>)
         o == Update(Nil, s, where.clauses, where.values, setMaps, now,
                     ans.drv, ex)
     IN Wrote([fn |-> "Update", s |-> s, where |-> where,
               setMaps |-> setMaps, now |-> now, ex |-> ex], o, ans, <<>>,
              {})

CallDelete(s, where, ex) ==
  /\ call.fn = "none"
  /\ LET b == getDeleteSQL(s, where.clauses)
         ans == ExecAnswer(b, where.values)
         o == Delete(Nil, s, where.clauses, where.values, ans.drv, ex)
     IN Wrote([fn |-> "Delete", s |-> s, where |-> where, ex |-> ex],
              o, ans, <<>>, {})

\* Find or First was called: the database answers the SELECT that passes
\* the checks with the rows it finds, in either order.
CallFind(fn, mp, where, rev, ex) ==
  /\ call.fn = "none"
  /\ LET b == getQuerySQL(mp, where.clauses, where.values, <<>>,
                          NilLimitOffset)
         ans == IF /\ b.kind = "return"
                   /\ QueryChecks(mp, b.val.sql, Len(b.val.values)) = Pass
                  THEN Database(table, b.val.sql, b.val.values)
                  ELSE Answer(DrvOk, table, <<>>)
         o == IF fn = "Find"
                THEN Find(Nil, mp, where.clauses, where.values, ans.drv,
                          Found(ans.found, rev), ex)
                ELSE First(Nil, mp, where.clauses, where.values, ans.drv,
                           Found(ans.found, rev), ex)
     IN call' = [fn |-> fn, mp |-> mp, where |-> where, ex |-> ex, h |-> Nil, before |-> table, built |-> o.built,
                 res |-> o.res]
  /\ UNCHANGED <<table, cfg>>
  /\ UNCHANGED txVars

\* The table is empty; debug and production mode, every check switched on.
InitOrm ==
  /\ pc = [p \in Procs |-> "start"]
  /\ tx = [p \in Procs |-> "Idle"]
  /\ table = <<>>
  /\ ins = [p \in Procs |-> {}]
  /\ locks = [p \in Procs |-> {}]
  /\ log = [p \in Procs |-> <<>>]
  /\ fCalls = [p \in Procs |-> 0]
  /\ fRet = [p \in Procs |-> None]
  /\ outcome = [p \in Procs |-> None]
  /\ nRollback = [p \in Procs |-> 0]
  /\ nCommit = [p \in Procs |-> 0]
  /\ endRes = [p \in Procs |-> "none"]
  /\ cfg \in {DefaultCfg, [DefaultCfg EXCEPT !.Mode = MODE_PRODUCTION]}
  /\ call = NoCall

\* The callers insert, find, update and delete on the pool; the database
\* has an index scan for the plan of what they execute, and an index scan
\* or a sequential scan for that of a SELECT.
NextOrm ==
  \/ /\ call.fn = "none"
     /\ \E s \in Records \cup NonRecords :
          CallInsertWithIgnores("Insert", s, DefaultIgnores, Ex(IndexScan))
  \/ /\ call.fn = "none"
     /\ \E s \in {Record(<<"U", "s", "T">>, t, 1, TRUE) :
                    t \in {TableForTest, Unannotated}}
                \cup {Named(<<"T">>, NilModel)} :
          CallInsertWithIgnores("InsertWithIgnores", s, {"id"}, Ex(IndexScan))
  \/ /\ call.fn = "none"
     /\ \E items \in Bulks :
          CallInsertBulkWithIgnores("InsertBulk", items, DefaultIgnores,
                                    Ex(IndexScan))
  \/ /\ call.fn = "none"
     /\ \E items \in Bulks :
          CallInsertBulkWithIgnores("InsertBulkWithIgnores", items, {"id"},
                                    Ex(IndexScan))
  \/ /\ call.fn = "none"
     /\ \E s \in Targets, where \in {ByUid(1), NoWhere}, setMaps \in SetMaps :
          CallUpdate(s, where, setMaps, 1, Ex(IndexScan))
  \/ /\ call.fn = "none"
     /\ \E s \in Targets, where \in {ByUid(2), NoWhere} :
          CallDelete(s, where, Ex(IndexScan))
  \/ /\ call.fn = "none"
     /\ \E mp \in ZeroRecords \cup NonRecords,
           where \in {ByUid(1), ByUid(2), ByName, NoWhere},
           rev \in BOOLEAN, t \in {IndexScan, SeqScan} :
          /\ t = SeqScan => where = ByUid(2)
          /\ CallFind("Find", mp, where, rev, Ex(t))
  \/ /\ call.fn = "none"
     /\ \E mp \in Targets, where \in {ByUid(1), ByUid(2), NoWhere},
           rev \in BOOLEAN :
          CallFind("First", mp, where, rev, Ex(IndexScan))
  \/ Return

SpecOrm == InitOrm /\ [][NextOrm]_vars

\* ----------------------------------------------------------------- claims

Done(p) == pc[p] = "done"

\* C1: when the callback returns a non-nil error e, Transaction calls
\* Rollback exactly once, never Commit, and, the rollback succeeding,
\* returns exactly e.
C1_ErrorRollsBackAndReturns ==
  \A p \in Procs :
    (Done(p) /\ fRet[p].kind = "return" /\ fRet[p].val # Nil) =>
      /\ nRollback[p] = 1
      /\ nCommit[p] = 0
      /\ endRes[p] = "ok" => outcome[p] = Returned(fRet[p].val)

C1_Witness ==
  \E p \in Procs :
    /\ Done(p)
    /\ fRet[p] = Returned(ErrApp)
    /\ nRollback[p] = 1
    /\ endRes[p] = "ok"
    /\ outcome[p] = Returned(ErrApp)

\* C2: when the callback panics with r, the handle is rolled back before
\* the panic leaves Transaction, Commit is never called, and, the rollback
\* succeeding, the caller observes a panic with the value r.
C2_PanicRollsBackAndRepanics ==
  \A p \in Procs :
    (Done(p) /\ fRet[p].kind = "panic") =>
      /\ nRollback[p] = 1
      /\ nCommit[p] = 0
      /\ ~Open(p)
      /\ outcome[p].kind = "panic"
      /\ endRes[p] = "ok" =>
           (outcome[p] = Panicked(fRet[p].val) /\ tx[p] = "RolledBack")

C2_Witness ==
  \E p \in Procs :
    /\ Done(p)
    /\ fRet[p] = Panicked(PanicUser)
    /\ tx[p] = "RolledBack"
    /\ outcome[p] = Panicked(PanicUser)

\* C3: when the callback returns nil, Transaction attempts Commit, never
\* calls Rollback, and returns nil if the commit succeeds.
C3_NilCommits ==
  \A p \in Procs :
    (Done(p) /\ fRet[p] = Returned(Nil)) =>
      /\ nCommit[p] = 1
      /\ nRollback[p] = 0
      /\ endRes[p] = "ok" => (outcome[p] = Returned(Nil) /\ tx[p] = "Committed")

C3_Witness ==
  \E p \in Procs :
    /\ Done(p)
    /\ fRet[p] = Returned(Nil)
    /\ tx[p] = "Committed"
    /\ outcome[p] = Returned(Nil)
    /\ \E k \in Keys : HasLast(p) /\ Last(p).op = "insert" /\ k \in table

\* The callback was handed an error by one of its statements.
SawError(p) == \E i \in 1..Len(log[p]) : log[p][i].res \in Errs

\* C4: a failed Commit never lets Transaction return: the driver's
\* ErrTxCommitRollback (the callback returned nil after a failed statement)
\* is the fatal abort PanicCommitDespiteErrInTx, any other failure the fatal
\* abort with the driver's error.
C4_CommitFailureIsFatal ==
  \A p \in Procs :
    /\ (nCommit[p] > 0 /\ endRes[p] # "ok") =>
         /\ outcome[p].kind = "panic"
         /\ endRes[p] = ErrTxCommitRollback =>
              outcome[p].val = PanicCommitDespiteErrInTx
         /\ endRes[p] # ErrTxCommitRollback => outcome[p].val = PanicCommitErr
    /\ (Done(p) /\ SawError(p) /\ fRet[p] = Returned(Nil)) =>
         outcome[p].val \in {PanicCommitDespiteErrInTx, PanicCommitErr}

C4_Witness ==
  \E p \in Procs :
    /\ Done(p)
    /\ SawError(p)
    /\ fRet[p] = Returned(Nil)
    /\ endRes[p] = ErrTxCommitRollback
    /\ outcome[p] = Panicked(PanicCommitDespiteErrInTx)

\* C5: a non-nil error Transaction returns is the error the callback
\* returned; a failed Begin, Commit or Rollback is a fatal abort, never a
\* returned error, and after a failed Begin the callback is not invoked.
C5_OnlyCallbackErrorsReturned ==
  \A p \in Procs :
    /\ (outcome[p].kind = "return" /\ outcome[p].val # Nil) =>
         fRet[p] = Returned(outcome[p].val)
    /\ endRes[p] \in {"err", ErrTxCommitRollback} => outcome[p].kind = "panic"
    /\ (Done(p) /\ tx[p] = "Idle") =>
         (outcome[p] = Panicked(PanicBeginErr) /\ fCalls[p] = 0
            /\ fRet[p] = None)
    /\ (Done(p) /\ tx[p] # "Idle") => fCalls[p] = 1

C5_Witness ==
  \E p, q \in Procs :
    /\ outcome[p].kind = "return"
    /\ outcome[p].val \in Errs
    /\ outcome[q] = Panicked(PanicBeginErr)
    /\ fCalls[q] = 0

\* The statements of p, by position in its log.
Stmts(p) == 1..Len(log[p])

\* C6: an insert that waited for another transaction's uncommitted insert of
\* the same key, and went on because that transaction committed, gives the
\* callback ErrUniqConstraint as a value; a callback returning it makes
\* Transaction roll back and return ErrUniqConstraint; the first
\* Transaction returns nil; neither aborts fatally.
C6_UniqueViolationAfterWait ==
  \A p \in Procs : \A q \in Others(p) : \A i \in Stmts(q) :
    LET e == log[q][i] IN
      (/\ e.op = "insert"
       /\ p \in e.env.blocker
       /\ e.res # "pending"
       /\ e.cause \notin {"fault", "aborted", "deadlock"}
       /\ tx[p] = "Committed"
       /\ endRes[p] = "ok") =>
        /\ e.res = ErrUniqConstraint
        /\ outcome[p] = Returned(Nil)
        /\ (Done(q) /\ fRet[q] = Returned(e.res)) =>
             /\ nRollback[q] = 1
             /\ nCommit[q] = 0
             /\ endRes[q] = "ok" =>
                  (outcome[q] = Returned(ErrUniqConstraint)
                     /\ tx[q] = "RolledBack")

C6_Witness ==
  \E p \in Procs : \E q \in Others(p) : \E i \in Stmts(q) :
    /\ log[q][i].op = "insert"
    /\ p \in log[q][i].env.blocker
    /\ log[q][i].res = ErrUniqConstraint
    /\ \E j \in Stmts(p) :
         log[p][j].op = "insert" /\ log[p][j].key = log[q][i].key
           /\ log[p][j].res = Nil
    /\ outcome[p] = Returned(Nil)
    /\ tx[p] = "Committed"
    /\ outcome[q] = Returned(ErrUniqConstraint)
    /\ tx[q] = "RolledBack"

\* p read row k with FOR UPDATE NOWAIT and got it locked.
TookLock(p, k) ==
  \E j \in Stmts(p) :
    /\ log[p][j].op = "lock"
    /\ log[p][j].key = k
    /\ log[p][j].res = Nil
    /\ log[p][j].rows = 1

\* C7: once the panic of a callback that had locked a row has reached the
\* caller of Transaction, the lock is released: a FOR UPDATE NOWAIT read of
\* that row issued afterwards in another Transaction returns a nil error,
\* and that Transaction returns nil.
C7_PanicReleasesLock ==
  \A p \in Procs : \A k \in Keys :
    (/\ Done(p)
     /\ fRet[p].kind = "panic"
     /\ outcome[p] = fRet[p]
     /\ TookLock(p, k)) =>
      /\ k \notin locks[p]
      /\ \A q \in Others(p) : \A i \in Stmts(q) :
           LET e == log[q][i] IN
             (/\ e.op = "lock"
              /\ e.key = k
              /\ p \in e.env.exited
              /\ e.cause \notin {"fault", "aborted"}) =>
               /\ e.res = Nil
               /\ (Done(q) /\ fRet[q] = Returned(Nil) /\ endRes[q] = "ok") =>
                    outcome[q] = Returned(Nil)

C7_Witness ==
  \E p \in Procs : \E q \in Others(p) : \E k \in Keys :
    /\ fRet[p] = Panicked(PanicUser)
    /\ outcome[p] = Panicked(PanicUser)
    /\ TookLock(p, k)
    /\ TookLock(q, k)
    /\ p \in Last(q).env.exited
    /\ outcome[q] = Returned(Nil)

\* C8: while another open transaction holds the lock on a committed row, a
\* FOR UPDATE NOWAIT read of that row returns ErrLockNotAvailable as a value,
\* at once and without a fatal abort; a callback returning it makes
\* Transaction roll back and return ErrLockNotAvailable.
C8_LockNotAvailableIsReturned ==
  \A p \in Procs : \A q \in Others(p) : \A i \in Stmts(q) :
    LET e == log[q][i] IN
      (/\ e.op = "lock"
       /\ p \in e.env.holder
       /\ e.env.committed
       /\ e.cause \notin {"fault", "aborted"}) =>
        /\ e.res = ErrLockNotAvailable
        /\ (Done(q) /\ fRet[q] = Returned(e.res)) =>
             /\ nRollback[q] = 1
             /\ nCommit[q] = 0
             /\ endRes[q] = "ok" =>
                  (outcome[q] = Returned(ErrLockNotAvailable)
                     /\ tx[q] = "RolledBack")

C8_Witness ==
  \E p \in Procs : \E q \in Others(p) : \E k \in Keys :
    /\ TookLock(p, k)
    /\ Open(p)
    /\ HasLast(q)
    /\ Last(q).op = "lock"
    /\ Last(q).key = k
    /\ p \in Last(q).env.holder
    /\ Last(q).res = ErrLockNotAvailable
    /\ outcome[q] = Returned(ErrLockNotAvailable)
    /\ tx[q] = "RolledBack"

\* p inserted one key and then the key q had inserted, q the other way
\* round, each second insert issued while the other's first was uncommitted.
CrossedInserts(p, q) ==
  /\ Len(log[p]) = 2
  /\ Len(log[q]) = 2
  /\ \A x \in {p, q} : \A i \in 1..2 :
       log[x][i].op = "insert" /\ log[x][i].cause # "fault"
  /\ log[p][1].res = Nil
  /\ log[q][1].res = Nil
  /\ log[p][1].key # log[q][1].key
  /\ log[p][2].key = log[q][1].key
  /\ log[q][2].key = log[p][1].key
  /\ q \in log[p][2].env.blocker
  /\ p \in log[q][2].env.blocker

\* C9: two transactions inserting two keys in opposite orders, each after
\* the other's first insert, both terminate, and one of them gets
\* ErrDeadLock as a value, which Transaction returns when the callback
\* returns it.
C9_DeadlockIsReturned ==
  /\ [](\A p \in Procs : \A q \in Others(p) :
          (CrossedInserts(p, q) /\ Last(p).res # "pending"
             /\ Last(q).res # "pending") =>
            \E x \in {p, q} :
              /\ Last(x).res = ErrDeadLock
              /\ (Done(x) /\ fRet[x] = Returned(ErrDeadLock)
                    /\ endRes[x] = "ok") =>
                   outcome[x] = Returned(ErrDeadLock))
  /\ \A p \in Procs : \A q \in Others(p) :
       CrossedInserts(p, q) ~> (Done(p) /\ Done(q))

C9_Witness ==
  \E p \in Procs : \E q \in Others(p) :
    /\ CrossedInserts(p, q)
    /\ Last(p).res = ErrDeadLock
    /\ outcome[p] = Returned(ErrDeadLock)
    /\ Last(q).res = Nil
    /\ outcome[q] = Returned(Nil)

\* The statements the driver answered with an error.
Failed(p) == {i \in Stmts(p) : ~log[p][i].drv.ok}

\* C10 as stated: each of the three errors is returned exactly when the
\* error text holds its code, and an error text with none of them is a
\* fatal abort.
C10_Original ==
  \A p \in Procs : \A i \in Failed(p) :
    LET e == log[p][i] IN
      /\ e.res = ErrLockNotAvailable
           <=> PostgresErrCodeLockNotAvailable \in e.drv.text
      /\ e.res = ErrUniqConstraint
           <=> PostgresErrCodeUniqConstraint \in e.drv.text
      /\ e.res = ErrDeadLock <=> PostgresErrCodeDeadLock \in e.drv.text
      /\ e.res = "panic" <=> e.drv.text = {}

\* C10, amended: for a driver error, Query and Exec return
\* ErrLockNotAvailable when the text holds 55P03, ErrUniqConstraint when it
\* holds 23505 and not 55P03, ErrDeadLock when it holds 40P01 and neither of
\* the other two; any other driver error is a fatal abort and never a
\* returned error.
C10_ClassifiedInOrder ==
  \A p \in Procs : \A i \in Failed(p) :
    LET e == log[p][i]
        t == e.drv.text
    IN
      /\ e.rows = 0
      /\ e.res = ErrLockNotAvailable <=> PostgresErrCodeLockNotAvailable \in t
      /\ e.res = ErrUniqConstraint
           <=> (PostgresErrCodeUniqConstraint \in t
                  /\ PostgresErrCodeLockNotAvailable \notin t)
      /\ e.res = ErrDeadLock
           <=> (PostgresErrCodeDeadLock \in t
                  /\ PostgresErrCodeLockNotAvailable \notin t
                  /\ PostgresErrCodeUniqConstraint \notin t)
      /\ e.res = "panic" <=> t = {}
      /\ e.res = "panic" =>
           (fRet[p] = Panicked(PanicQueryFailed) /\ outcome[p].kind = "panic")

C10_Witness ==
  \E p \in Procs : \E i \in Failed(p) : \E j \in Failed(p) :
    /\ log[p][i].op = "insert"
    /\ log[p][i].drv.text =
         {PostgresErrCodeLockNotAvailable, PostgresErrCodeUniqConstraint}
    /\ log[p][i].res = ErrLockNotAvailable
    /\ log[p][j].op = "lock"
    /\ log[p][j].drv.text = {}
    /\ log[p][j].res = "panic"


\* ------------------------------------------- claims about calls: validators

\* The call that just ended aborted fatally with the text msg.
Aborted(msg) == call.res.out.kind = "panic" /\ call.res.out.val = <<msg>>

\* The statement of the call never went to a handle, and the rows stored are
\* those stored before the call.
NotExecuted == call.res.via = "none" /\ table = call.before

\* The text of the call holds kw, whatever the case of the letters.
Mentions(kw) == Contains(ToLower(call.query), ToLower(kw))

\* The statement of the call is a SELECT, a DELETE, an UPDATE, an INSERT: its
\* first word says.
IsStatement(kw) == LowerUnit(call.query[1]) = kw

\* The text of the call has a WHERE keyword between blanks.
HasWhere == Mentions(KwWhere)

\* The count of '$' in the text of the call is the number of its arguments.
CountMatches == Count(call.query, "$") = call.nargs

\* C11 as stated: a call of Query or Exec whose text has a number of '$'
\* other than the number of arguments aborts with
\* PanicPlaceHolderNumberNotMatch.
C11_Original ==
  (call.fn \in {"Query", "Exec"} /\ Count(call.query, "$") # call.nargs)
    => Aborted(PanicPlaceHolderNumberNotMatch)

\* C11: a call of Exec, or of Query with a model that is not nil, whose text
\* has a number of '$' other than the number of arguments aborts with
\* PanicPlaceHolderNumberNotMatch, whatever else is wrong with the text, and
\* the statement is not executed; Query with a nil model aborts for the nil
\* model first.
C11_PlaceHolderCountedFirst ==
  /\ ( /\ call.fn \in {"Query", "Exec"}
       /\ call.fn = "Query" => ~call.mp.nil
       /\ Count(call.query, "$") # call.nargs )
       => Aborted(PanicPlaceHolderNumberNotMatch) /\ NotExecuted
  /\ (call.fn = "Query" /\ call.mp.nil) => Aborted(PanicMpNil) /\ NotExecuted

\* A DELETE without WHERE and with an argument too many went to Exec, and a
\* text without SELECT and with an argument too many went to Query: the
\* count decided.
C11_Witness ==
  /\ call.fn \in {"Query", "Exec"}
  /\ call.fn = "Query" => ~call.mp.nil
  /\ Count(call.query, "$") # call.nargs
  /\ cfg.useWhereCheck
  /\ Mentions(KwDelete)
  /\ ~HasWhere
  /\ ~Mentions(disableWhereCheckClause)
  /\ table # {}
  /\ Aborted(PanicPlaceHolderNumberNotMatch)


\* C12 as stated: with the WHERE check on, a read statement that goes to
\* Query and a DELETE that goes to Exec abort with
\* PanicSelectSQLMustUseWhere and PanicDeleteSQLMustUseWhere when the text
\* has no ' WHERE ', unless it holds the tautology 'm'='m' of the marker m;
\* a text with ' WHERE ' is not rejected by this check.
C12_Original ==
  cfg.useWhereCheck =>
    /\ ( /\ call.fn = "Query"
         /\ IsStatement("select")
         /\ ~HasWhere
         /\ ~Mentions(Tautology(disableWhereCheckClause)) )
         => Aborted(PanicSelectSQLMustUseWhere)
    /\ ( /\ call.fn = "Exec"
         /\ IsStatement("delete")
         /\ ~HasWhere
         /\ ~Mentions(Tautology(disableWhereCheckClause)) )
         => Aborted(PanicDeleteSQLMustUseWhere)
    /\ (call.fn \in {"Query", "Exec"} /\ HasWhere)
         => /\ ~Aborted(PanicSelectSQLMustUseWhere)
            /\ ~Aborted(PanicDeleteSQLMustUseWhere)

\* C12: with the WHERE check on, a statement with SELECT that Query gets
\* with a model and as many arguments as '$', and a statement with DELETE
\* that Exec gets with as many arguments as '$', abort with
\* PanicSelectSQLMustUseWhere and PanicDeleteSQLMustUseWhere, unexecuted,
\* exactly when the text has neither ' WHERE ' nor the words of the marker,
\* in a tautology or not; a text with ' WHERE ' or with the marker is never
\* rejected by this check.
C12_WhereOrMarkerRequired ==
  cfg.useWhereCheck =>
    /\ ( /\ call.fn = "Query"
         /\ ~call.mp.nil
         /\ CountMatches
         /\ IsStatement("select") )
         => /\ Aborted(PanicSelectSQLMustUseWhere)
                 <=> (~HasWhere /\ ~Mentions(disableWhereCheckClause))
            /\ Aborted(PanicSelectSQLMustUseWhere) => NotExecuted
    /\ ( /\ call.fn = "Exec"
         /\ CountMatches
         /\ IsStatement("delete") )
         => /\ Aborted(PanicDeleteSQLMustUseWhere)
                 <=> (~HasWhere /\ ~Mentions(disableWhereCheckClause))
            /\ Aborted(PanicDeleteSQLMustUseWhere) => NotExecuted
    /\ ( /\ call.fn \in {"Query", "Exec"}
         /\ HasWhere \/ Mentions(disableWhereCheckClause) )
         => /\ ~Aborted(PanicSelectSQLMustUseWhere)
            /\ ~Aborted(PanicDeleteSQLMustUseWhere)

\* A DELETE without WHERE and without marker went to Exec while rows were
\* stored, and was aborted.
C12_Witness ==
  /\ cfg.useWhereCheck
  /\ call.fn = "Exec"
  /\ CountMatches
  /\ IsStatement("delete")
  /\ ~HasWhere
  /\ ~Mentions(disableWhereCheckClause)
  /\ call.before # {}
  /\ Aborted(PanicDeleteSQLMustUseWhere)

\* The checks of the call, as Query or Exec makes them.
ChecksOf ==
  IF call.fn = "Exec" THEN ExecChecks(call.query, call.nargs)
  ELSE QueryChecks(call.mp, call.query, call.nargs)

\* C13: when a check of Query or Exec fails, the statement goes to no
\* handle, neither the caller's nor the pool, no audit begins, and the rows
\* stored stay as they were: after an aborted DELETE without WHERE every row
\* is still there.
C13_RejectedNeverExecuted ==
  (call.fn \in {"Query", "Exec"} /\ ChecksOf # Pass)
    => /\ call.res.out.kind = "panic"
       /\ call.res.via = "none"
       /\ ~call.res.audit.began
       /\ table = call.before

\* Exec aborted a DELETE without WHERE while a row was stored.
C13_Witness ==
  /\ call.fn = "Exec"
  /\ call.h = Nil
  /\ Mentions(KwDelete)
  /\ ~HasWhere
  /\ Aborted(PanicDeleteSQLMustUseWhere)
  /\ call.before = {"aa"}
  /\ table = {"aa"}


\* The text of the call is a locking read without NOWAIT.
LockingWithoutNowait ==
  /\ Mentions(KwForSelect) \/ Mentions(KwForUpdate)
  /\ ~Mentions(KwNowait)

\* C14 as stated: with the NOWAIT check on, a statement that goes to Query
\* with ' FOR SELECT' or ' FOR UPDATE' and without ' NOWAIT' aborts with
\* PanicLockingReadMustUseNowait before it reaches the driver; with
\* ' NOWAIT' it is not rejected by this check.
C14_Original ==
  (cfg.forceNowaitOnLockingRead /\ call.fn = "Query")
    => /\ LockingWithoutNowait
            => Aborted(PanicLockingReadMustUseNowait) /\ NotExecuted
       /\ Mentions(KwNowait) => ~Aborted(PanicLockingReadMustUseNowait)

\* The call of Query got a model, as many arguments as '$', a text with
\* SELECT, and what the WHERE check asks for if it is on.
PassedUpToWhere ==
  /\ ~call.mp.nil
  /\ CountMatches
  /\ Mentions(KwSelect)
  /\ cfg.useWhereCheck => HasWhere \/ Mentions(disableWhereCheckClause)

\* C14: with the NOWAIT check on, a locking read without ' NOWAIT' that
\* goes to Query aborts fatally before it reaches the driver, with
\* PanicLockingReadMustUseNowait if it passed the checks made before this
\* one (model, count of arguments, SELECT, WHERE) and with the abort of the
\* first of them that failed otherwise; a text with ' NOWAIT' is never
\* rejected by this check.
C14_LockingReadNeedsNowait ==
  (cfg.forceNowaitOnLockingRead /\ call.fn = "Query")
    => /\ LockingWithoutNowait
            => /\ call.res.out.kind = "panic"
               /\ NotExecuted
               /\ Aborted(PanicLockingReadMustUseNowait) <=> PassedUpToWhere
               /\ ~PassedUpToWhere => Aborted(ChecksOf)
       /\ ~LockingWithoutNowait => ~Aborted(PanicLockingReadMustUseNowait)

\* SELECT ... WHERE ... FOR UPDATE went to Query and was aborted for the
\* missing NOWAIT.
C14_Witness ==
  /\ cfg.forceNowaitOnLockingRead
  /\ call.fn = "Query"
  /\ Mentions(KwForUpdate)
  /\ HasWhere
  /\ ~Mentions(KwNowait)
  /\ Aborted(PanicLockingReadMustUseNowait)
  /\ call.res.via = "none"

\* The text of the call is an UPDATE that misses what the WHERE check asks
\* for, and one that does not name updated_at.
UpdateWithoutWhere ==
  /\ cfg.useWhereCheck
  /\ ~HasWhere
  /\ ~Mentions(disableWhereCheckClause)

UpdateWithoutUpdatedAt ==
  cfg.forceUpdatedAtCheck /\ ~Mentions(KwUpdatedAt)

C16_Original ==
  (call.fn = "Query" /\ ~Mentions(<<"SELECT">>))
    => Aborted(PanicQueryNotContanSelect) /\ NotExecuted

\* C16: a statement that goes to Query without SELECT in its text aborts
\* fatally and is not executed; the abort is PanicQueryNotContanSelect when
\* the call has a model and as many arguments as '$', the abort of the
\* model check or of the argument count otherwise.
C16_QueryNeedsSelect ==
  (call.fn = "Query" /\ ~Mentions(<<"SELECT">>))
    => /\ call.res.out.kind = "panic"
       /\ NotExecuted
       /\ Aborted(PanicQueryNotContanSelect) <=> (~call.mp.nil /\ CountMatches)
       /\ call.mp.nil => Aborted(PanicMpNil)
       /\ (~call.mp.nil /\ ~CountMatches)
            => Aborted(PanicPlaceHolderNumberNotMatch)

\* DELETE FROM t went to Query while a row was stored.
C16_Witness ==
  /\ call.fn = "Query"
  /\ Mentions(KwDelete)
  /\ ~Mentions(<<"SELECT">>)
  /\ call.nargs = 0
  /\ call.before # {}
  /\ Aborted(PanicQueryNotContanSelect)
  /\ table = call.before


\* ------------------------------------------- claims about calls: plan audit

\* The database answered the EXPLAIN of the call with one row that holds
\* one plan.
HasPlan ==
  /\ call.ex.fault = "none"
  /\ Len(call.ex.docs) = 1
  /\ call.ex.docs[1].valid
  /\ Len(call.ex.docs[1].plans) = 1

ThePlan == call.ex.docs[1].plans[1]

\* node, or a node at most d levels below it, is a sequential scan.
RECURSIVE SeqScanWithin(_, _)
SeqScanWithin(node, d) ==
  \/ Contains(ToLower(node.NodeType), <<"seq", " ", "scan">>)
  \/ /\ d > 0
     /\ \E i \in 1..Len(node.Plans) : SeqScanWithin(node.Plans[i], d - 1)

\* The call was aborted for a sequential scan, the text of the abort being
\* PanicSQLIsSeqScan formatted with the statement.
SeqScanAbort ==
  /\ call.res.out.kind = "panic"
  /\ call.res.out.val = <<PanicSQLIsSeqScan>> \o call.query

\* Debug mode, the audit on, no marker in the text, and a plan to audit.
Audited ==
  /\ cfg.Mode = MODE_DEBUG
  /\ cfg.useSeqScanCheck
  /\ ~Mentions(seqScanCheckDisableClause)
  /\ HasPlan

\* C17: in debug mode, the audit on and no marker in the text, CheckSeqScan
\* returns false exactly when the root of the plan or a node at most 10
\* levels below it is a sequential scan, and true otherwise; Query and Exec,
\* once the statement is executed, abort with PanicSQLIsSeqScan formatted
\* with the statement exactly when CheckSeqScan returns false, and return
\* otherwise.
C17_SeqScanWithinTenLevels ==
  /\ (call.fn = "CheckSeqScan" /\ Audited)
       => /\ call.res.out.kind = "return"
          /\ call.res.out.val = ~SeqScanWithin(ThePlan, 10)
  /\ (call.fn \in {"Query", "Exec"} /\ Audited /\ ChecksOf = Pass)
       => /\ call.res.audit.kind = "return"
          /\ call.res.audit.val = ~SeqScanWithin(ThePlan, 10)
          /\ SeqScanAbort <=> SeqScanWithin(ThePlan, 10)
          /\ ~SeqScanWithin(ThePlan, 10) => call.res.out.kind = "return"

\* Query was aborted for a sequential scan 10 levels below the root of the
\* plan, none being above it.
C17_Witness ==
  /\ call.fn = "Query"
  /\ Audited
  /\ SeqScanWithin(ThePlan, 10)
  /\ ~SeqScanWithin(ThePlan, 9)
  /\ SeqScanAbort
  /\ ~call.res.audit.val

\* C18: in production mode Query and Exec run no plan audit: no
\* transaction is begun for it, no EXPLAIN is sent, and the call is not
\* aborted for a sequential scan; a statement that was executed returns.
C18_NoAuditInProduction ==
  (cfg.Mode = MODE_PRODUCTION /\ call.fn \in {"Query", "Exec"})
    => /\ call.res.audit.kind = "none"
       /\ ~call.res.audit.began
       /\ ~call.res.audit.explained
       /\ ~SeqScanAbort
       /\ ChecksOf = Pass => call.res.out.kind = "return"

\* In production mode, with the audit switched on, Query returned for a
\* statement without marker whose plan is a sequential scan.
C18_Witness ==
  /\ cfg.Mode = MODE_PRODUCTION
  /\ cfg.useSeqScanCheck
  /\ call.fn = "Query"
  /\ ~Mentions(seqScanCheckDisableClause)
  /\ HasPlan
  /\ SeqScanWithin(ThePlan, 0)
  /\ call.res.via = "pool"
  /\ call.res.out.kind = "return"
  /\ ~call.res.audit.began

\* C19: for a text with the marker of the audit, CheckSeqScan returns true
\* without beginning a transaction and without asking for the plan, and
\* Query and Exec are not aborted for a sequential scan, whatever the plan
\* is.
C19_MarkerSkipsAudit ==
  (call.fn # "none" /\ Mentions(seqScanCheckDisableClause))
    => /\ call.fn = "CheckSeqScan"
            => /\ call.res.out.kind = "return"
               /\ call.res.out.val
       /\ call.fn \in {"Query", "Exec", "CheckSeqScan"}
            => /\ ~call.res.audit.began
               /\ ~call.res.audit.explained
               /\ ~SeqScanAbort
       /\ ( /\ call.fn \in {"Query", "Exec"}
            /\ ChecksOf = Pass
            /\ cfg.Mode = MODE_DEBUG )
            => /\ call.res.audit.kind = "return"
               /\ call.res.audit.val
               /\ call.res.out.kind = "return"

\* In debug mode, with the audit switched on, Exec returned for an UPDATE
\* with the marker whose plan is a sequential scan.
C19_Witness ==
  /\ cfg.Mode = MODE_DEBUG
  /\ cfg.useSeqScanCheck
  /\ call.fn = "Exec"
  /\ Mentions(seqScanCheckDisableClause)
  /\ HasPlan
  /\ SeqScanWithin(ThePlan, 0)
  /\ call.res.out.kind = "return"
  /\ call.res.audit.val
  /\ ~call.res.audit.began

\* The call is a Query or a QueryFirst whose statement the driver executed:
\* call.rs is its result set.
GotRows ==
  /\ call.fn \in {"Query", "QueryFirst"}
  /\ call.res.via # "none"
  /\ call.drv.ok

\* The record type is a struct whose fields all have an annotation.
CompleteAnnotations ==
  /\ call.mp.struct
  /\ \A f \in 1..Len(call.mp.tags) : call.mp.tags[f] # ""

\* Every column of the result set is the annotation of a field.
ColumnsMatch ==
  \A c \in 1..Len(call.rs.cols) :
    \E f \in 1..Len(call.mp.tags) : call.mp.tags[f] = call.rs.cols[c]

\* No two entries of s are the same.
Distinct(s) == \A i, j \in 1..Len(s) : s[i] = s[j] => i = j

\* The statement's rows decode without a fault, and the plan audit, where
\* it runs, accepts the plan.
Undisturbed ==
  /\ call.rs.fault = "none"
  /\ \/ cfg.Mode = MODE_PRODUCTION
     \/ /\ cfg.Mode = MODE_DEBUG
        /\ \/ ~cfg.useSeqScanCheck
           \/ Mentions(seqScanCheckDisableClause)
           \/ HasPlan /\ ~SeqScanWithin(ThePlan, 10)

\* recs are the rows of the result set in their order: one record a row,
\* each field holding the value of the column with its annotation.
RowsInOrder(recs) ==
  /\ Len(recs) = Len(call.rs.rows)
  /\ \A k \in 1..Len(recs) :
       \A f \in 1..Len(call.mp.tags), c \in 1..Len(call.rs.cols) :
         call.rs.cols[c] = call.mp.tags[f]
           => recs[k][f] = call.rs.rows[k][c]

\* What C20 says of the call that came back.
Materialized ==
  /\ call.res.out.kind = "return"
  /\ call.res.out.val.err = Nil
  /\ call.fn = "Query"
       => /\ ~call.res.out.val.val.nil
          /\ RowsInOrder(call.res.out.val.val.elems)
  /\ call.fn = "QueryFirst"
       => IF Len(call.rs.rows) = 0
            THEN call.res.out.val.val.nil
            ELSE /\ ~call.res.out.val.val.nil
                 /\ call.res.out.val.val.index = 1
                 /\ RowsInOrder(call.res.out.val.val.slice)

C20_WitnessEmpty ==
  /\ GotRows
  /\ CompleteAnnotations
  /\ ColumnsMatch
  /\ Len(call.rs.rows) = 0
  /\ call.res.out.kind = "return"
  /\ call.res.out.val.err = Nil
  /\ IF call.fn = "QueryFirst" THEN call.res.out.val.val.nil
     ELSE ~call.res.out.val.val.nil /\ call.res.out.val.val.elems = <<>>

\* C29: a Transaction call whose Begin succeeded calls neither Commit nor
\* Rollback while the callback runs, and has called exactly one of them,
\* exactly once, when it has exited, by returning or by passing on a panic;
\* the handle is then no longer active, and from then on no statement is
\* issued on it and neither call is made again.
C29_ExactlyOneCommitOrRollback ==
  /\ [](\A p \in Procs :
          /\ pc[p] \in {"f", "wait"}
               => /\ nCommit[p] = 0
                  /\ nRollback[p] = 0
                  /\ tx[p] \in {"Active", "Failed"}
          /\ (pc[p] = "done" /\ fCalls[p] = 1)
               => /\ nCommit[p] + nRollback[p] = 1
                  /\ tx[p] \in {"Committed", "RolledBack", "Broken"})
  /\ [][\A p \in Procs :
          pc[p] = "done"
            => /\ pc'[p] = "done"
               /\ log'[p] = log[p]
               /\ tx'[p] = tx[p]
               /\ nCommit'[p] = nCommit[p]
               /\ nRollback'[p] = nRollback[p]]_vars

\* One goroutine left Transaction by the panic of its callback, rolled back
\* once and never committed; the other returned nil, committed once and
\* never rolled back.
C29_Witness ==
  \E p, q \in Procs :
    /\ pc[p] = "done"
    /\ fRet[p] = Panicked(PanicUser)
    /\ nRollback[p] = 1
    /\ nCommit[p] = 0
    /\ tx[p] = "RolledBack"
    /\ pc[q] = "done"
    /\ outcome[q] = Returned(Nil)
    /\ nCommit[q] = 1
    /\ nRollback[q] = 0
    /\ tx[q] = "Committed"
    /\ Len(log[q]) > 0

\* C27 as stated: on every exit of an audit that opened its transaction, by
\* CheckSeqScan itself or inside Query or Exec, the transaction has been
\* rolled back (an exit by the failure of the Rollback itself set aside).
C27_Original ==
  ( /\ call.fn \in {"CheckSeqScan", "Query", "Exec"}
    /\ call.res.audit.began
    /\ call.ex.fault # "rollback" )
    => call.res.audit.rolledBack

\* CheckSeqScan left by the fatal abort of a failed SET LOCAL, its
\* transaction begun and not rolled back.
C27_Witness ==
  /\ call.fn = "CheckSeqScan"
  /\ call.ex.fault = "set"
  /\ call.res.out.kind = "panic"
  /\ call.res.audit.began
  /\ ~call.res.audit.rolledBack

\* Field f of the record type is the target of no column of the result set:
\* no column has its annotation, or a later field has the same one.
Unset(f) ==
  \/ \A c \in 1..Len(call.rs.cols) : call.rs.cols[c] # call.mp.tags[f]
  \/ \E g \in (f + 1)..Len(call.mp.tags) : call.mp.tags[g] = call.mp.tags[f]

\* Query returned the records of the rows of its statement.
QueryReturnedRows ==
  /\ GotRows
  /\ call.fn = "Query"
  /\ call.res.out.kind = "return"
  /\ call.res.out.val.err = Nil

\* C28 as stated: in every record after the first that Query returns, a
\* field that no column of the row sets holds the zero value.
C28_Original ==
  QueryReturnedRows
    => \A k \in 2..Len(call.res.out.val.val.elems) :
         \A f \in 1..Len(call.mp.tags) :
           Unset(f) => call.res.out.val.val.elems[k][f] = IntV(0)

\* C28: Query scans each row into a fresh copy of the record *mp the caller
\* passed: in every record it returns, the first included, a field that no
\* column sets holds the value that field has in *mp (the zero value when
\* the caller passes a zero record) and never a value of an earlier row,
\* and a field that columns set holds the value of the last of them in the
\* row of that record, whatever the rows after it hold.
C28_EachRowIntoACopyOfMp ==
  QueryReturnedRows
    => /\ Len(call.res.out.val.val.elems) = Len(call.rs.rows)
       /\ \A k \in 1..Len(call.rs.rows) :
            \A f \in 1..Len(call.mp.tags) :
              IF Unset(f)
                THEN call.res.out.val.val.elems[k][f] = call.mp.vals[f]
                ELSE \E c \in 1..Len(call.rs.cols) :
                       /\ call.rs.cols[c] = call.mp.tags[f]
                       /\ \A d \in (c + 1)..Len(call.rs.cols) :
                            call.rs.cols[d] # call.rs.cols[c]
                       /\ call.res.out.val.val.elems[k][f] =
                            call.rs.rows[k][c]

\* Query returned two records for two rows of the one column uid, the
\* record passed holding 7 in both fields: the field id holds 7 in both
\* records.
C28_Witness ==
  /\ QueryReturnedRows
  /\ call.mp.tags = <<"uid", "id">>
  /\ call.mp.vals = <<IntV(7), IntV(7)>>
  /\ call.rs.cols = <<"uid">>
  /\ call.res.out.val.val.elems =
       <<<<Cell(1, 1), IntV(7)>>, <<Cell(2, 1), IntV(7)>>>>

\* The callback of p was left by the sequential-scan abort of an Exec.
UnitSeqScanAbort(p) ==
  /\ pc[p] = "done"
  /\ fRet[p].kind = "panic"
  /\ fRet[p].val = PanicSQLIsSeqScan

\* C30: in debug mode the plan audit of an Exec runs once its statement is
\* executed: while it runs the inserted row is in the transaction, and an
\* Exec on the pool that is aborted for a sequential scan went to the pool
\* and, no unit of work having begun since, its row is stored.  In a unit of work the abort is recovered by
\* one Rollback and no Commit before it leaves Transaction as a panic, and
\* no row the unit inserted, the audited one included, is stored.
C30_AuditAfterExecuteThenRollback ==
  /\ \A p \in Procs :
       /\ pc[p] = "audit"
            => /\ Last(p).cause = "ok"
               /\ Last(p).key \in ins[p]
               /\ tx[p] = "Active"
       /\ UnitSeqScanAbort(p)
            => /\ cfg.Mode = MODE_DEBUG
               /\ Last(p).cause = "ok"
               /\ Last(p).rows = 1
               /\ Last(p).res = "panic"
               /\ nRollback[p] = 1
               /\ nCommit[p] = 0
               /\ outcome[p].kind = "panic"
               /\ ins[p] = {}
               /\ \A i \in 1..Len(log[p]) :
                    (log[p][i].op = "insert" /\ log[p][i].cause = "ok")
                      => log[p][i].key \notin table
  /\ (call.fn = "Exec" /\ SeqScanAbort /\ tx["g1"] = "Idle")
       => /\ cfg.Mode = MODE_DEBUG
          /\ call.res.via = "pool"
          /\ call.res.audit.began
          /\ call.query = InsertRow
               => \E k \in Keys \ call.before : table = call.before \cup {k}

\* A unit of work inserted bb, then aa, and the audit of the second insert
\* aborted it: one Rollback, the panic passed on, neither row stored.
C30_Witness ==
  /\ UnitSeqScanAbort("g1")
  /\ Len(log["g1"]) = 2
  /\ log["g1"][1].key = "bb"
  /\ log["g1"][1].cause = "ok"
  /\ log["g1"][2].key = "aa"
  /\ log["g1"][2].cause = "ok"
  /\ tx["g1"] = "RolledBack"
  /\ outcome["g1"].kind = "panic"
  /\ outcome["g1"].val = PanicSQLIsSeqScan
  /\ table = {}

\* An INSERT executed on the pool was aborted for a sequential scan and its
\* row is stored.
C30_WitnessPool ==
  /\ call.fn = "Exec"
  /\ call.query = InsertRow
  /\ SeqScanAbort
  /\ call.before = {}
  /\ table # {}

\* The placeholders of the text are $1, $2, ..., $k from the left.
NumberedFromOne(text) ==
  \A k \in 1..Count(text, "$") : PlaceholderNumber(text, k) = k

\* The text with every placeholder written as the marker again.
RECURSIVE Unnumbered(_)
Unnumbered(text) ==
  IF Len(text) = 0 THEN <<>>
  ELSE IF Head(text) = "$"
    THEN <<"?">> \o Unnumbered(SubSeq(text, 2 + Len(DigitsAfter(text, 1)),
                                      Len(text)))
  ELSE <<Head(text)>> \o Unnumbered(Tail(text))

\* The markers of a sequence of fragments.
RECURSIVE Markers(_)
Markers(frags) ==
  IF Len(frags) = 0 THEN 0 ELSE Count(frags[1], "?") + Markers(Tail(frags))

\* What the map limitOffset holds for a key: no or one value.
LimitOf(lo) ==
  IF lo.nil THEN <<>> ELSE [i \in 1..Len(lo.limit) |-> IntV(lo.limit[i])]
OffsetOf(lo) ==
  IF lo.nil THEN <<>> ELSE [i \in 1..Len(lo.offset) |-> IntV(lo.offset[i])]

\* getQuerySQL has built a statement.
QueryBuilt == call.fn = "getQuerySQL" /\ call.res.kind = "return"

\* C22: the text getQuerySQL builds is "SELECT * FROM <table>", the WHERE
\* with its clauses joined by AND, the ORDER BY with its clauses joined by
\* commas, the LIMIT and the OFFSET, in this order and each only when
\* given; its markers are numbered $1, $2, ..., $k from the left without a
\* gap or a repeat; the values are the where-values, the limit, the offset;
\* and when the clauses of the WHERE hold one marker per where-value and
\* those of the ORDER BY none, there are as many placeholders as values, so
\* that the i-th placeholder is the one of the i-th value.
C22_QueryTextAndValues ==
  QueryBuilt =>
    LET sql == call.res.val.sql
        values == call.res.val.values
        limit == LimitOf(call.limitOffset)
        offset == OffsetOf(call.limitOffset)
    IN /\ Unnumbered(sql) =
            <<"SELECT", " ", "*", " ", "FROM", " ">>
              \o toTableName(call.s.name)
              \o (IF call.whereClauses = <<>> THEN <<>>
                  ELSE <<" ", "WHERE", " ">>
                         \o Join(call.whereClauses, <<" ", "AND", " ">>))
              \o (IF call.orderByClauses = <<>> THEN <<>>
                  ELSE <<" ", "ORDER", " ", "BY", " ">>
                         \o Join(call.orderByClauses, <<",", " ">>))
              \o (IF limit = <<>> THEN <<>> ELSE <<" ", "LIMIT", " ", "?">>)
              \o (IF offset = <<>> THEN <<>> ELSE <<" ", "OFFSET", " ", "?">>)
       /\ Count(sql, "?") = 0
       /\ Count(sql, "$") =
            Markers(call.whereClauses) + Markers(call.orderByClauses)
              + Len(limit) + Len(offset)
       /\ NumberedFromOne(sql)
       /\ values = call.whereValues \o limit \o offset
       /\ (/\ Markers(call.whereClauses) = Len(call.whereValues)
           /\ Markers(call.orderByClauses) = 0)
            => Count(sql, "$") = Len(values)

\* A statement with a WHERE of two clauses, an ORDER BY, a LIMIT and an
\* OFFSET is built, its ten markers numbered and one value for each.
C22_Witness ==
  /\ QueryBuilt
  /\ Len(call.whereClauses) = 2
  /\ Len(call.orderByClauses) = 2
  /\ LimitOf(call.limitOffset) # <<>>
  /\ OffsetOf(call.limitOffset) # <<>>
  /\ Count(call.res.val.sql, "$") = 10
  /\ Len(call.res.val.values) = 10
  /\ PlaceholderNumber(call.res.val.sql, 10) = 10


\* The j-th smallest element of the set P of numbers.
Nth(P, j) == CHOOSE i \in P : Cardinality({m \in P : m < i}) = j - 1

\* The names between quotes in the text, from the left.
QuotedNames(text) ==
  LET q == PositionsOf(text, "\"")
  IN [j \in 1..(Len(q) \div 2) |-> text[q[2 * j - 1] + 1]]

\* Every field of the record s carries an annotation.
Annotated(s) == \A f \in 1..Len(s.tags) : s.tags[f] # ""

\* What the claims say a field contributes: null for an unset pointer, what
\* a set pointer points to, the field otherwise.
Contributed(v) ==
  IF v.ptr /\ v.nil THEN NullV
  ELSE IF v.ptr THEN [v EXCEPT !.ptr = FALSE]
  ELSE v

\* The fields of s that are not ignored.
Included(s, ignores) == {f \in 1..Len(s.tags) : s.tags[f] \notin ignores}

\* getInsertSQL has built a statement.
InsertBuilt == call.fn = "getInsertSQL" /\ call.res.kind = "return"

\* C23: getInsertSQL aborts fatally for an argument that is not a record;
\* for a record whose fields are all annotated it builds an INSERT INTO
\* <table> whose column list names the fields outside the ignore set in
\* declaration order, with one placeholder per such field, $1..$k, in the
\* VALUES tuple, and returns k values in the same order: null for a nil
\* pointer, the value pointed to for a set pointer, the field otherwise.
C23_InsertTextAndValues ==
  /\ call.fn = "getInsertSQL" =>
       /\ call.res.kind = "panic" <=> (call.s.nil \/ ~call.s.struct)
       /\ call.res.kind = "panic" => call.res.val = <<"must be a struct">>
  /\ (InsertBuilt /\ Annotated(call.s)) =>
       LET sql == call.res.val.sql
           values == call.res.val.values
           inc == Included(call.s, call.ignores)
           k == Cardinality(inc)
       IN /\ SubSeq(sql, 1, 4) = <<"INSERT", " ", "INTO", " ">>
          /\ SubSeq(sql, 5, 4 + Len(toTableName(call.s.name)))
               = toTableName(call.s.name)
          /\ Count(sql, "VALUES") = 1
          /\ Len(QuotedNames(sql)) = k
          /\ \A j \in 1..k : QuotedNames(sql)[j] = call.s.tags[Nth(inc, j)]
          /\ \A i \in 1..Len(sql) :
               /\ sql[i] = "\"" => i < PositionsOf(sql, "VALUES")[1]
               /\ sql[i] = "$" => i > PositionsOf(sql, "VALUES")[1]
          /\ Count(sql, "$") = k
          /\ NumberedFromOne(sql)
          /\ Len(values) = k
          /\ \A j \in 1..k : values[j] = Contributed(call.s.vals[Nth(inc, j)])

\* An INSERT is built for a record with the fields id, name and age under
\* the default ignore set, name being a nil pointer and age a set one.
C23_Witness ==
  /\ InsertBuilt
  /\ call.s.tags = <<"id", "name", "age">>
  /\ call.ignores = {"id", "created_at", "updated_at"}
  /\ call.s.vals[2].ptr /\ call.s.vals[2].nil
  /\ call.s.vals[3].ptr /\ ~call.s.vals[3].nil
  /\ QuotedNames(call.res.val.sql) = <<"name", "age">>
  /\ call.res.val.values = <<NullV, IntV(13)>>


\* InsertBulk or InsertBulkWithIgnores was called.
BulkCalled == call.fn \in {"InsertBulk", "InsertBulkWithIgnores"}

\* The ignore set of the call: the default one for Insert and InsertBulk.
IgnoresOf(c) ==
  IF c.fn \in {"Insert", "InsertBulk"}
    THEN {"id", "created_at", "updated_at"}
    ELSE c.ignores

\* C24: for n >= 1 items with k fields outside the ignore set, the text
\* getBulkInsertSQL builds has one column list, that of the first item, and
\* n value tuples whose placeholders are $1..$(n*k) from the left, k in
\* each tuple, and the values are n*k, item by item and field by field;
\* for no item InsertBulk and InsertBulkWithIgnores return (nil, nil),
\* build no statement, call no driver and leave the table as it was.
C24_BulkTextAndValues ==
  /\ (BulkCalled /\ Len(call.items) = 0) =>
       /\ call.built.kind = "none"
       /\ call.res.via = "none"
       /\ call.res.out.kind = "return"
       /\ call.res.out.val.val = Nil /\ call.res.out.val.err = Nil
       /\ table = call.before
  /\ (BulkCalled /\ Len(call.items) >= 1 /\ call.built.kind = "return") =>
       LET sql == call.built.val.sql
           values == call.built.val.values
           n == Len(call.items)
           inc == Included(call.items[1], IgnoresOf(call))
           k == Cardinality(inc)
           ph == PositionsOf(sql, "$")
       IN /\ SubSeq(sql, 1, 4) = <<"INSERT", " ", "INTO", " ">>
          /\ Count(sql, "VALUES") = 1
          /\ Len(QuotedNames(sql)) = k
          /\ \A j \in 1..k :
               QuotedNames(sql)[j] = call.items[1].tags[Nth(inc, j)]
          /\ \A i \in 1..Len(sql) :
               sql[i] = "\"" => i < PositionsOf(sql, "VALUES")[1]
          /\ Count(sql, "(") = n + 1 /\ Count(sql, ")") = n + 1
          /\ Len(ph) = n * k
          /\ NumberedFromOne(sql)
          /\ \A q \in 1..Len(ph) :
               /\ Count(SubSeq(sql, 1, ph[q]), "(") = 2 + ((q - 1) \div k)
               /\ Count(SubSeq(sql, 1, ph[q]), ")") = 1 + ((q - 1) \div k)
          /\ Len(values) = n * k
          /\ \A g \in 1..n, j \in 1..k :
               values[(g - 1) * k + j]
                 = Contributed(call.items[g].vals[Nth(inc, j)])

\* A bulk of two records is inserted without its ids: three columns, the
\* placeholders $1..$6, six values, and two rows stored.
C24_Witness ==
  /\ call.fn = "InsertBulkWithIgnores"
  /\ Len(call.items) = 2
  /\ call.built.kind = "return"
  /\ QuotedNames(call.built.val.sql) = <<"uid", "name", "updated_at">>
  /\ Count(call.built.val.sql, "$") = 6
  /\ PlaceholderNumber(call.built.val.sql, 6) = 6
  /\ call.built.val.values
       = <<IntV(1), IntV(7), TimeV(0), IntV(2), IntV(7), TimeV(0)>>
  /\ call.res.out.kind = "return"
  /\ Len(table) = 2

\* InsertBulk is called with no item when a row is stored.
C24_WitnessEmpty ==
  /\ call.fn = "InsertBulk"
  /\ Len(call.items) = 0
  /\ call.res.out.kind = "return"
  /\ Len(table) = 1


\* The record an entry point of the ORM was called with: the first item of
\* a bulk.
RecordOf(c) ==
  IF c.fn \in {"Find", "First"} THEN c.mp
  ELSE IF c.fn \in {"Update", "Delete"} THEN c.s
  ELSE c.items[1]

\* An entry point was called with a record one of whose fields has no
\* annotation.
UnannotatedCalled ==
  /\ call.fn \in {"Find", "First", "Insert", "InsertWithIgnores",
                   "InsertBulk", "InsertBulkWithIgnores", "Update", "Delete"}
  /\ call.fn \in {"InsertBulk", "InsertBulkWithIgnores"}
       => Len(call.items) > 0
  /\ RecordOf(call).struct
  /\ \E f \in 1..Len(RecordOf(call).tags) : RecordOf(call).tags[f] = ""

\* C21: an operation called with a record that has a field without
\* annotation ends in a fatal abort before a statement is built for the
\* driver or sent to it.
C21_Original ==
  UnannotatedCalled =>
    /\ call.res.out.kind = "panic"
    /\ call.built.kind # "return"
    /\ call.res.via = "none"

\* Insert is called with such a record: the statement is built with a
\* column without a name and goes to the pool.
C21_Witness ==
  /\ UnannotatedCalled
  /\ call.fn = "Insert"
  /\ call.built.kind = "return"
  /\ \E j \in 1..Len(QuotedNames(call.built.val.sql)) :
       QuotedNames(call.built.val.sql)[j] = ""
  /\ call.res.via = "pool"

\* Delete is called with such a record: it deletes the row and returns.
C21_WitnessDelete ==
  /\ UnannotatedCalled
  /\ call.fn = "Delete"
  /\ call.res.out.kind = "return"
  /\ call.res.out.val.err = Nil
  /\ Len(table) < Len(call.before)

\* Find is called with such a record: the SELECT goes to the pool, and the
\* abort for the field follows.
C21_WitnessFind ==
  /\ UnannotatedCalled
  /\ call.fn = "Find"
  /\ call.res.via = "pool"
  /\ call.res.out.kind = "panic"
  /\ call.res.out.val[Len(call.res.out.val)] = PanicNoLabel


\* getUpdateSQL has built a statement.
UpdateBuilt == call.fn = "getUpdateSQL" /\ call.res.kind = "return"

History == log["g1"]

\* Find has returned records for the rows whose uid is v.
FoundByUid(v) ==
  /\ call.fn = "Find"
  /\ call.where.clauses = <<<<"uid", " ", "=", " ", "?">>>>
  /\ call.where.values = <<IntV(v)>>
  /\ call.res.out.kind = "return"
  /\ call.res.out.val.err = Nil

\* The value of the field annotated tag of a record inserted, and of a
\* record found, which is of the type of mp.
FieldTagged(rec, tag) ==
  rec.vals[CHOOSE g \in 1..Len(rec.tags) : rec.tags[g] = tag]
FoundTagged(found, tag) ==
  found[CHOOSE g \in 1..Len(call.mp.tags) : call.mp.tags[g] = tag]

\* The record found holds, in every field that was not ignored, the value
\* of that field of the record inserted.
SameValues(entry, found) ==
  \A f \in 1..Len(entry.item.tags) :
    entry.item.tags[f] \notin entry.ignores =>
      /\ \E g \in 1..Len(call.mp.tags) : call.mp.tags[g] = entry.item.tags[f]
      /\ Contributed(FoundTagged(found, entry.item.tags[f]))
           = Contributed(entry.item.vals[f])

\* C26: when records were inserted by Insert, InsertWithIgnores, InsertBulk
\* or InsertBulkWithIgnores and their rows were not updated or deleted
\* since, a Find by uid that returns without error returns exactly one
\* record for each inserted record with that uid, and this record holds
\* the inserted value in every field that was not ignored.
C26_InsertThenFind ==
  \A v \in {1, 2} :
    (FoundByUid(v) /\ \A i \in 1..Len(History) : ~History[i].changed) =>
      LET src == {i \in 1..Len(History) :
                    FieldTagged(History[i].item, "uid") = IntV(v)}
          recs == call.res.out.val.val.elems
      IN /\ Len(recs) = Cardinality(src)
         /\ \E m \in [src -> 1..Len(recs)] :
              /\ \A i, j \in src : m[i] = m[j] => i = j
              /\ \A i \in src : SameValues(History[i], recs[m[i]])

\* Two records with the uids 1 and 2 were inserted in one bulk, and Find by
\* uid 2 returns one record: uid 2 and a name that points to 7.
C26_Witness ==
  /\ FoundByUid(2)
  /\ Len(History) = 2
  /\ \A i \in 1..2 :
       /\ ~History[i].changed
       /\ FieldTagged(History[i].item, "uid") = IntV(i)
       /\ History[i].ignores = {"id", "created_at", "updated_at"}
  /\ Len(call.res.out.val.val.elems) = 1
  /\ FoundTagged(call.res.out.val.val.elems[1], "uid") = IntV(2)
  /\ FoundTagged(call.res.out.val.val.elems[1], "name") = PtrV(IntV(7))
  /\ cfg.Mode = "debug"

\* Two records with the uid 1 were inserted one after the other, a nil
\* name and a set one, and Find by uid 1 returns two records.
C26_WitnessTwo ==
  /\ FoundByUid(1)
  /\ Len(History) = 2
  /\ \A i \in 1..2 : ~History[i].changed
  /\ FieldTagged(History[1].item, "name") = NilPtr("int")
  /\ FieldTagged(History[2].item, "name") = PtrV(IntV(7))
  /\ Len(call.res.out.val.val.elems) = 2


====
